---- MODULE Spec2Model ----
(***************************************************************************)
(* A model of the checkpointed conversation engine of minted-api:          *)
(* LLMService (lib/services/llm.service.ts), DynamoDBCheckpointSaver       *)
(* (lib/services/checkpoint.service.ts) and the conversation DELETE        *)
(* handler (app/api/conversations/[id]/route.ts), over one DynamoDB table. *)
(*                                                                         *)
(* Every await on the table or on the model is one step of a request, so   *)
(* requests interleave exactly at the points where the code suspends.      *)
(* The table is read-your-writes consistent in this model: an item written *)
(* by a completed put is seen by every later get and index query, except   *)
(* in SpecLag, where the conversation index may lag behind a call's own    *)
(* user-message write.                                                     *)
(***************************************************************************)
EXTENDS Integers, Sequences, FiniteSets, TLC

\* ------------------------------------------------------------------ bounds
MaxAsks == 3        \* ask calls made in one sequential behaviour
MaxOverlap == 2     \* ask calls made in one behaviour where calls overlap or the table fails
MaxStreams == 2     \* ask and askStream calls made in one behaviour of the graph's life
MaxChunks == 2      \* chunks one model stream produces
MaxAdds == 2        \* addFeatureNode calls made in one behaviour
MaxDeletes == 1     \* conversation DELETE requests in one behaviour
MaxPuts == 2        \* direct putTuple calls in one behaviour
MaxReads == 2       \* direct getTuple and list calls in one behaviour
MaxPages == 3       \* list calls in one behaviour that walks through pages
MaxEdits == 1       \* message PUT requests, and message DELETE requests, in one behaviour

\* ------------------------------------------------------------ input domains
Users == {"u1"}
Convs == {"c1", "c2"}
Scopes == Users \X Convs
AskSlots == {"a1", "a2"}
StreamSlots == {"s1"}
DeleteSlots == {"d1"}
NodeNames == {"featureA", "featureB"}
UserTexts == {"Hello", "How are you?"}

\* keys the checkpoint saver is called with directly: (userId, chatId,
\* checkpointId)
SaverUsers == {"u1", "u2"}
SaverChats == {"c1", "c12"}
SaverCheckpointIds == {"latest", "cp1"}
SaverKeys == SaverUsers \X SaverChats \X SaverCheckpointIds

\* option values: undefined is <<>>, a present value v is <<v>>
Undefined == <<>>
Some(v) == <<v>>

\* ------------------------------------------------ model (gateway) contents
\* The content of a model message is a string, an array of parts, or
\* something else; a part is a string or something else (one level deep).
StrPart(s) == [isString |-> TRUE, str |-> s]
OtherPart == [isString |-> FALSE, str |-> ""]
StringContent(s) == [kind |-> "string", str |-> s, parts |-> <<>>]
ArrayContent(ps) == [kind |-> "array", str |-> "", parts |-> ps]
OtherContent == [kind |-> "other", str |-> "", parts |-> <<>>]

ModelReplies ==
  { StringContent("Hi there"), StringContent(""), StringContent(" "),
    ArrayContent(<<StrPart("Hi"), OtherPart, StrPart(" there")>>),
    ArrayContent(<<>>), OtherContent }

ModelChunks ==
  { StringContent("Stream"), StringContent("ing response"), StringContent("") }

RECURSIVE JoinParts(_)
JoinParts(ps) ==
  IF ps = <<>> THEN ""
  ELSE (IF Head(ps).isString THEN Head(ps).str ELSE "") \o JoinParts(Tail(ps))

getMessageContent(content) ==
  CASE content.kind = "string" -> content.str
    [] content.kind = "array" -> JoinParts(content.parts)
    [] OTHER -> ""

\* JavaScript truthiness of a string: only the empty string is falsy
Truthy(s) == s # ""

\* ------------------------------------------------------------- table keys
MessagePK(id) == <<"MSG#", id>>
MessageIdOfPK(pk) == pk[2]
ConversationGSI1PK(userId, conversationId) ==
  <<"USER#", userId, "#CHAT#", conversationId>>
\* (mutant) one checkpoint key for all the conversations of a user
CheckpointPKPerUser(userId, chatId) == <<"USER#", userId, "#CHAT#", "">>

CheckpointPK(userId, chatId) == <<"USER#", userId, "#CHAT#", chatId>>
CheckpointSK(checkpointId) == <<"CHECKPOINT#", checkpointId>>

\* the string a key template evaluates to
KeyText(key) ==
  IF Len(key) = 2 THEN key[1] \o key[2]
  ELSE key[1] \o key[2] \o key[3] \o key[4]

\* begins_with(text, prefix) of a key condition
begins_with(text, prefix) ==
  Len(prefix) <= Len(text) /\ SubSeq(text, 1, Len(prefix)) = prefix

\* ---------------------------------------------------------------- state
VARIABLES
  msgs,           \* message items of the table (pk = sk = MSG#id)
  ckpts,          \* checkpoint items of the table
  convs,          \* conversation records of the table
  nextId,         \* the next identifier uuidv7() returns
  compiledGraph,  \* LLMService.compiledGraph is set
  nodes,          \* node names registered on graphDefinition
  edges,          \* edges added to graphDefinition, in order
  ask,            \* ask calls, by slot
  strm,           \* askStream generators, by slot
  del,            \* conversation DELETE requests, by slot
  addOutcome,     \* outcome of the most recent addFeatureNode call
  counts,         \* calls made so far, by kind
  transcript,     \* per scope: the turns ask resolved, as model messages
  rejected,       \* per scope: an ask on it was rejected
  pulled,         \* some askStream generator has been advanced
  deleted,        \* scopes a conversation DELETE was started on
  now,            \* the clock Date.now() reads
  saverCalls,     \* direct calls of the checkpoint saver: count, last outcome,
                  \* and per key the latest successful putTuple
  routeItems      \* items of the table at the keys the message route uses
                  \* (pk = USER#userId, sk = MSG#messageId)

vars == << msgs, ckpts, convs, nextId, compiledGraph, nodes, edges, ask, strm,
           del, addOutcome, counts, transcript, rejected, pulled, deleted,
           now, saverCalls, routeItems >>

\* ------------------------------------------------------ message references
Ref(id, fromUser) == [messageId |-> id, isFromUser |-> fromUser]

RefIds(refs) == { refs[i].messageId : i \in 1..Len(refs) }

RECURSIVE FilterNew(_, _)
FilterNew(ids, y) ==
  IF y = <<>> THEN <<>>
  ELSE IF Head(y).messageId \in ids THEN FilterNew(ids, Tail(y))
       ELSE <<Head(y)>> \o FilterNew(ids, Tail(y))

\* (mutant) the reducer without the filter on ids already present
messageRefsReducerNoFilter(x, y) == x \o y

\* the messageRefs channel reducer
messageRefsReducer(x, y) == x \o FilterNew(RefIds(x), y)

\* the responseChunk channel reducer: y ?? x
responseChunkReducer(x, y) == IF y # Undefined THEN y ELSE x

\* the isStreaming channel reducer
isStreamingReducer(x, y) == y

\* channel defaults
DefaultState ==
  [messageRefs |-> <<>>, responseChunk |-> Undefined, isStreaming |-> FALSE]

\* a node's partial update applied through the reducers; has names the keys
\* the update carries
ApplyUpdate(state, has, upd) ==
  [messageRefs |-> IF "messageRefs" \in has
                   THEN messageRefsReducer(state.messageRefs, upd.messageRefs)
                   ELSE state.messageRefs,
   responseChunk |-> IF "responseChunk" \in has
                     THEN responseChunkReducer(state.responseChunk, upd.responseChunk)
                     ELSE state.responseChunk,
   isStreaming |-> IF "isStreaming" \in has
                   THEN isStreamingReducer(state.isStreaming, upd.isStreaming)
                   ELSE state.isStreaming]

\* the processMessages node
processMessages(state) ==
  ApplyUpdate(state, {"responseChunk"},
              [messageRefs |-> <<>>, responseChunk |-> Undefined, isStreaming |-> FALSE])

\* graph input written to the channels, then the first node
GraphStart(initialState) ==
  processMessages(ApplyUpdate(DefaultState, {"messageRefs", "isStreaming"},
     [messageRefs |-> initialState.messageRefs, responseChunk |-> Undefined,
      isStreaming |-> initialState.isStreaming]))

\* ------------------------------------------------------------ the table
MessageItem(id, content, fromUser, userId, conversationId) ==
  [pk |-> MessagePK(id), content |-> content, isFromUser |-> fromUser,
   conversationId |-> conversationId,
   GSI1PK |-> ConversationGSI1PK(userId, conversationId)]

\* dynamoDB.put of a message item: replaces the item of the same key
PutMessage(items, item) == { m \in items : m.pk # item.pk } \cup {item}

\* dynamoDB.get of a message by key: the item, or undefined
GetMessage(items, id) ==
  IF \E m \in items : m.pk = MessagePK(id)
  THEN Some(CHOOSE m \in items : m.pk = MessagePK(id))
  ELSE Undefined

\* dynamoDB.query on GSI1 with GSI1PK = :pk
QueryConversation(items, userId, conversationId) ==
  { m \in items : m.GSI1PK = ConversationGSI1PK(userId, conversationId) }

CheckpointItem(userId, chatId, checkpointId, state, metadata) ==
  [pk |-> CheckpointPK(userId, chatId), sk |-> CheckpointSK(checkpointId),
   GSI1PK |-> <<"USER#", userId>>, GSI1SK |-> now,
   state |-> state, metadata |-> metadata]

\* (mutant) a missing record answered with an empty state
getTupleDefaultsToEmpty(items, userId, chatId, checkpointId) ==
  LET hit == { c \in items : c.pk = CheckpointPK(userId, chatId)
                             /\ c.sk = CheckpointSK(checkpointId) }
  IN IF hit = {}
     THEN Some(<<[messageRefs |-> <<>>],
                 [source |-> "input", step |-> 1, writes |-> "null", parents |-> {}]>>)
     ELSE LET c == CHOOSE c \in hit : TRUE IN Some(<<c.state, c.metadata>>)

\* DynamoDBCheckpointSaver.getTuple: [state, metadata], or undefined
getTuple(items, userId, chatId, checkpointId) ==
  LET hit == { c \in items : c.pk = CheckpointPK(userId, chatId)
                             /\ c.sk = CheckpointSK(checkpointId) }
  IN IF hit = {} THEN Undefined
     ELSE LET c == CHOOSE c \in hit : TRUE IN Some(<<c.state, c.metadata>>)

\* (mutant) the new state's refs merged into the stored record's refs
putTupleMerging(items, userId, chatId, checkpointId, state, metadata) ==
  LET old == getTuple(items, userId, chatId, checkpointId)
      refs == IF old = Undefined THEN state.messageRefs
              ELSE messageRefsReducer(old[1][1].messageRefs, state.messageRefs)
  IN { c \in items : ~(c.pk = CheckpointPK(userId, chatId)
                       /\ c.sk = CheckpointSK(checkpointId)) }
     \cup { CheckpointItem(userId, chatId, checkpointId,
                           [messageRefs |-> refs], metadata) }

\* (mutant) the record added beside the one already stored under the key
putTupleAppending(items, userId, chatId, checkpointId, state, metadata) ==
  items \cup { CheckpointItem(userId, chatId, checkpointId, state, metadata) }

\* (mutant) a conditional put: a record already stored under the key is kept
putTupleKeepsFirst(items, userId, chatId, checkpointId, state, metadata) ==
  IF \E c \in items : c.pk = CheckpointPK(userId, chatId)
                       /\ c.sk = CheckpointSK(checkpointId)
  THEN items
  ELSE items \cup { CheckpointItem(userId, chatId, checkpointId, state, metadata) }

\* DynamoDBCheckpointSaver.putTuple
putTuple(items, userId, chatId, checkpointId, state, metadata) ==
  { c \in items : ~(c.pk = CheckpointPK(userId, chatId)
                    /\ c.sk = CheckpointSK(checkpointId)) }
  \cup { CheckpointItem(userId, chatId, checkpointId, state, metadata) }

\* the conversation record POST /api/conversations writes for a new
\* conversation
ConversationItem(userId, id) ==
  [pk |-> <<"CHAT#", id>>, sk |-> <<"USER#", userId>>, type |-> "CHAT"]

\* dynamoDB.delete by key
DeleteMessage(items, pk) == { m \in items : m.pk # pk }
DeleteConversation(items, pk, sk) == { c \in items : ~(c.pk = pk /\ c.sk = sk) }
DeleteCheckpoint(items, pk, sk) == { c \in items : ~(c.pk = pk /\ c.sk = sk) }

AskMetadata == [source |-> "input", step |-> 1, writes |-> "null", parents |-> {}]

\* checkpoint?.[0]?.messageRefs || []
CheckpointRefs(checkpoint) ==
  IF checkpoint = Undefined THEN <<>> ELSE checkpoint[1][1].messageRefs

LatestRefs(scope) == CheckpointRefs(getTuple(ckpts, scope[1], scope[2], "latest"))

\* ----------------------------------------------------- model messages
HumanMessage(content) == [role |-> "human", content |-> content]
AIMessage(content) == [role |-> "ai", content |-> content]

RECURSIVE ProjectRefs(_, _)
ProjectRefs(found, refs) ==
  IF refs = <<>> THEN <<>>
  ELSE LET ref == Head(refs)
           hit == { m \in found : MessageIdOfPK(m.pk) = ref.messageId }
       IN (IF hit = {} THEN <<>>
           ELSE LET m == CHOOSE m \in hit : TRUE
                IN <<IF ref.isFromUser THEN HumanMessage(m.content)
                     ELSE AIMessage(m.content)>>)
          \o ProjectRefs(found, Tail(refs))

\* the dynamoDB.query calls one loadMessagesFromRefs call issues
loadQueries(refs, config) ==
  IF Len(refs) = 0 THEN 0
  ELSE IF config.userId = "" \/ config.conversationId = "" THEN 0
  ELSE 1

\* LLMService.loadMessagesFromRefs; config is the configurable part of the
\* run config (undefined fields are "")
loadMessagesFromRefs(items, refs, config) ==
  IF Len(refs) = 0 THEN <<>>
  ELSE IF config.userId = "" \/ config.conversationId = "" THEN <<>>
  ELSE ProjectRefs(QueryConversation(items, config.userId, config.conversationId), refs)

\* ------------------------------------------------------------- graph compile
\* (mutant) the edges wired with the model node first
GraphEdgesInvokeFirst ==
  << <<"START", "invokeLLM">>, <<"invokeLLM", "processMessages">>,
     <<"processMessages", "END">> >>

GraphEdges ==
  << <<"START", "processMessages">>, <<"processMessages", "invokeLLM">>,
     <<"invokeLLM", "END">> >>

\* (mutant) the edges wired and compile run on every call
compileGraphEveryCall ==
  /\ compiledGraph' = TRUE
  /\ edges' = edges \o GraphEdges

\* the compiled graph's step from a node: the target of the edges leaving it
NodeAfter(node) ==
  LET targets == { edges[i][2] : i \in { j \in 1..Len(edges) : edges[j][1] = node } }
  IN IF targets = {} THEN "END" ELSE CHOOSE n \in targets : TRUE

\* LLMService.compileGraph
compileGraph ==
  /\ compiledGraph' = TRUE
  /\ edges' = IF ~compiledGraph THEN edges \o GraphEdges ELSE edges


\* ---------------------------------------------------------------------- ask
IdleAsk ==
  [pc |-> "idle", userId |-> "", conversationId |-> "", content |-> "",
   userMessageId |-> 0, pendGet |-> FALSE, pendPut |-> FALSE,
   checkpoint |-> Undefined, state |-> DefaultState, input |-> <<>>,
   reply |-> Undefined, responseContent |-> "", assistantMessageId |-> 0,
   pendFetch |-> FALSE, pendCkpt |-> FALSE, lastMessage |-> Undefined,
   result |-> Undefined, error |-> "",
   preTurn |-> Undefined,   \* the 'latest' checkpoint when the call was made
   queries |-> 0,           \* index queries loadMessagesFromRefs issued
   ran |-> <<>>,            \* the nodes the graph execution has entered
   post |-> [pc |-> "none", refs |-> <<>>, message |-> Undefined,
             response |-> Undefined]]   \* the POST handler around the call

AskSettled(a) == a.pc \in {"idle", "done", "rejected"}
AskPending(a) == a.pendGet \/ a.pendPut \/ a.pendFetch \/ a.pendCkpt

Reject(a, error) == [a EXCEPT !.pc = "rejected", !.error = error]

\* the run config ask passes to graph.invoke
AskConfig(a) == [userId |-> a.userId, conversationId |-> a.conversationId]

\* ask, lines 335-349: both halves of the first Promise.all are in; build the
\* initial state and start the graph (processMessages runs without I/O)
\* (mutant) the initial state without the new user ref
AskInitialStateNoUserRef(a) ==
  [messageRefs |-> CheckpointRefs(a.checkpoint),
   responseChunk |-> Undefined, isStreaming |-> FALSE]

AskInitialState(a) ==
  [messageRefs |-> CheckpointRefs(a.checkpoint) \o <<Ref(a.userMessageId, TRUE)>>,
   responseChunk |-> Undefined, isStreaming |-> FALSE]

\* (mutant) the checkpoint write issued as soon as the initial state is built
AskJoinFirstEagerCheckpoint(a) ==
  IF a.pc = "start" /\ ~a.pendGet /\ ~a.pendPut
  THEN [a EXCEPT !.pc = "graph", !.state = GraphStart(AskInitialState(a)),
                 !.ran = <<NodeAfter("START")>>, !.pendCkpt = TRUE]
  ELSE a

\* (mutant) the graph started as soon as the checkpoint is in, without waiting
\* for the user-message write
AskJoinFirstNoWaitPut(a) ==
  IF a.pc = "start" /\ ~a.pendGet
  THEN [a EXCEPT !.pc = "graph", !.state = GraphStart(AskInitialState(a)),
                 !.ran = <<NodeAfter("START")>>]
  ELSE a

AskJoinFirst(a) ==
  IF a.pc = "start" /\ ~a.pendGet /\ ~a.pendPut
  THEN [a EXCEPT !.pc = "graph", !.state = GraphStart(AskInitialState(a)),
                 !.ran = <<NodeAfter("START")>>]
  ELSE a

\* ask, lines 375-387: both halves of the second Promise.all are in
AskReturn(a) ==
  IF a.lastMessage = Undefined
  THEN Reject(a, "Failed to load assistant response")
  ELSE LET responseContent == getMessageContent(StringContent(a.lastMessage[1].content))
       IN IF ~Truthy(responseContent)
          THEN Reject(a, "Empty response from assistant")
          ELSE [a EXCEPT !.pc = "done",
                         !.result = Some([content |-> responseContent,
                                          role |-> "assistant"])]

AskJoinSecond(a) ==
  IF a.pc = "finish" /\ ~a.pendFetch /\ ~a.pendCkpt THEN AskReturn(a) ELSE a

\* what the caller has seen of the calls on a scope
Settle(p, a) ==
  /\ ask' = [ask EXCEPT ![p] = a]
  /\ transcript' =
       IF a.pc = "done" /\ ask[p].pc # "done"
       THEN [transcript EXCEPT ![<<a.userId, a.conversationId>>] =
               @ \o <<HumanMessage(a.content), AIMessage(a.result[1].content)>>]
       ELSE transcript
  /\ rejected' =
       IF a.pc = "rejected" /\ ask[p].pc # "rejected"
       THEN [rejected EXCEPT ![<<a.userId, a.conversationId>>] = TRUE]
       ELSE rejected

\* ask is called: compileGraph and uuidv7 run before the first await, and the
\* checkpoint read and the user-message write are issued together
AskStart(p, userId, conversationId, content) ==
  /\ AskSettled(ask[p]) /\ ~AskPending(ask[p])
  /\ compileGraph
  /\ nextId' = nextId + 1
  /\ counts' = [counts EXCEPT !.ask = @ + 1]
  /\ ask' = [ask EXCEPT ![p] =
               [IdleAsk EXCEPT !.pc = "start", !.userId = userId,
                               !.conversationId = conversationId,
                               !.content = content, !.userMessageId = nextId,
                               !.pendGet = TRUE, !.pendPut = TRUE,
                               !.preTurn = getTuple(ckpts, userId, conversationId,
                                                    "latest")]]
  /\ UNCHANGED << msgs, ckpts, convs, nodes, strm, del, addOutcome,
                  transcript, rejected, pulled, deleted,
                  now, saverCalls, routeItems >>

\* checkpointSaver.getTuple(userId, conversationId, 'latest') completes
AskGetCheckpoint(p, ok) ==
  LET a == ask[p] IN
  /\ a.pendGet
  /\ UNCHANGED counts
  /\ Settle(p,
       IF ok
       THEN AskJoinFirst([a EXCEPT !.pendGet = FALSE,
              !.checkpoint = getTuple(ckpts, a.userId, a.conversationId, "latest")])
       ELSE IF a.pc = "start"
            THEN Reject([a EXCEPT !.pendGet = FALSE], "StoreUnavailable")
            ELSE [a EXCEPT !.pendGet = FALSE])
  /\ UNCHANGED << msgs, ckpts, convs, nextId, compiledGraph, nodes, edges,
                  strm, del, addOutcome, pulled, deleted,
                  now, saverCalls, routeItems >>

\* dynamoDB.put of the user's message completes
AskPutUser(p, ok) ==
  LET a == ask[p] IN
  /\ a.pendPut
  /\ UNCHANGED counts
  /\ msgs' = IF ok
             THEN PutMessage(msgs, MessageItem(a.userMessageId, a.content, TRUE,
                                               a.userId, a.conversationId))
             ELSE msgs
  /\ Settle(p,
       IF ok THEN AskJoinFirst([a EXCEPT !.pendPut = FALSE])
       ELSE IF a.pc = "start"
            THEN Reject([a EXCEPT !.pendPut = FALSE], "StoreUnavailable")
            ELSE [a EXCEPT !.pendPut = FALSE])
  /\ UNCHANGED << ckpts, convs, nextId, compiledGraph, nodes, edges,
                  strm, del, addOutcome, pulled, deleted,
                  now, saverCalls, routeItems >>

\* invokeLLM node, line 175: the history is loaded from the table
AskLoadMessages(p, ok) ==
  LET a == ask[p] IN
  /\ a.pc = "graph"
  /\ ok \/ loadQueries(a.state.messageRefs, AskConfig(a)) > 0
  /\ UNCHANGED counts
  /\ Settle(p,
       IF ok
       THEN [a EXCEPT !.pc = "invoke",
               !.ran = Append(@, NodeAfter(a.ran[Len(a.ran)])),
               !.queries = loadQueries(a.state.messageRefs, AskConfig(a)),
               !.input = loadMessagesFromRefs(msgs, a.state.messageRefs, AskConfig(a))]
       ELSE Reject([a EXCEPT !.queries = 1,
                             !.ran = Append(@, NodeAfter(a.ran[Len(a.ran)]))],
                   "StoreUnavailable"))
  /\ UNCHANGED << msgs, ckpts, convs, nextId, compiledGraph, nodes, edges,
                  strm, del, addOutcome, pulled, deleted,
                  now, saverCalls, routeItems >>

\* invokeLLM node, line 175, when GSI1 has not caught up with the write of the
\* call's own user message: the index query does not return that item (reads
\* of a global secondary index are eventually consistent)
AskLoadMessagesLagging(p) ==
  LET a == ask[p]
      visible == { m \in msgs : m.pk # MessagePK(a.userMessageId) }
  IN
  /\ a.pc = "graph"
  /\ UNCHANGED counts
  /\ Settle(p, [a EXCEPT !.pc = "invoke",
               !.ran = Append(@, NodeAfter(a.ran[Len(a.ran)])),
               !.queries = loadQueries(a.state.messageRefs, AskConfig(a)),
               !.input = loadMessagesFromRefs(visible, a.state.messageRefs,
                                              AskConfig(a))])
  /\ UNCHANGED << msgs, ckpts, convs, nextId, compiledGraph, nodes, edges,
                  strm, del, addOutcome, pulled, deleted, now, saverCalls, routeItems >>

\* (mutant) the answer taken without the empty check
InvokeAnswerNoEmptyCheck(a, content, id) ==
  [a EXCEPT !.pc = "persist", !.responseContent = getMessageContent(content),
            !.assistantMessageId = id]

\* invokeLLM node, lines 194-213: model.invoke answers with a content
InvokeAnswer(a, content, id) ==
  LET responseContent == getMessageContent(content) IN
  IF ~Truthy(responseContent) THEN Reject(a, "Empty response from LLM")
  ELSE IF a.userId = "" \/ a.conversationId = ""
       THEN Reject(a, "Missing userId or conversationId in request")
       ELSE [a EXCEPT !.pc = "persist", !.responseContent = responseContent,
                      !.assistantMessageId = id]

AskModelInvoke(p, content) ==
  LET a == ask[p] IN
  /\ a.pc = "invoke"
  /\ Settle(p, InvokeAnswer([a EXCEPT !.reply = Some(content)], content, nextId))
  /\ nextId' = IF InvokeAnswer(a, content, nextId).pc = "persist"
               THEN nextId + 1 ELSE nextId
  /\ UNCHANGED << msgs, ckpts, convs, compiledGraph, nodes, edges, strm, del,
                  addOutcome, counts, pulled, deleted,
                  now, saverCalls, routeItems >>

\* model.invoke throws
AskModelThrow(p) ==
  LET a == ask[p] IN
  /\ a.pc = "invoke"
  /\ Settle(p, Reject(a, "LLM error"))
  /\ UNCHANGED << msgs, ckpts, convs, nextId, compiledGraph, nodes, edges,
                  strm, del, addOutcome, counts, pulled, deleted,
                  now, saverCalls, routeItems >>

\* invokeLLM node, lines 232-241: the node's update
InvokeUpdate(a) ==
  [messageRefs |->
     IF a.assistantMessageId \in RefIds(a.state.messageRefs)
     THEN a.state.messageRefs
     ELSE a.state.messageRefs \o <<Ref(a.assistantMessageId, FALSE)>>,
   responseChunk |-> Some(a.responseContent),
   isStreaming |-> FALSE]

\* (mutant) a failed write of the assistant's message is swallowed
AskPutAssistantIgnoreFailure(p, ok) ==
  LET a == ask[p] IN
  /\ a.pc = "persist"
  /\ UNCHANGED counts
  /\ msgs' = IF ok
             THEN PutMessage(msgs, MessageItem(a.assistantMessageId, a.responseContent,
                                               FALSE, a.userId, a.conversationId))
             ELSE msgs
  /\ Settle(p, [a EXCEPT !.pc = "finish",
               !.state = ApplyUpdate(a.state, {"messageRefs", "responseChunk"},
                                     InvokeUpdate(a)),
               !.pendFetch = TRUE, !.pendCkpt = TRUE])
  /\ UNCHANGED << ckpts, convs, nextId, compiledGraph, nodes, edges,
                  strm, del, addOutcome, pulled, deleted, now, saverCalls, routeItems >>

\* dynamoDB.put of the assistant's message completes; the node returns, the
\* graph ends, and the re-fetch and the checkpoint write are issued together
AskPutAssistant(p, ok) ==
  LET a == ask[p] IN
  /\ a.pc = "persist"
  /\ UNCHANGED counts
  /\ msgs' = IF ok
             THEN PutMessage(msgs, MessageItem(a.assistantMessageId, a.responseContent,
                                               FALSE, a.userId, a.conversationId))
             ELSE msgs
  /\ Settle(p,
       IF ok
       THEN [a EXCEPT !.pc = "finish",
               !.state = ApplyUpdate(a.state, {"messageRefs", "responseChunk"},
                                     InvokeUpdate(a)),
               !.pendFetch = TRUE, !.pendCkpt = TRUE]
       ELSE Reject(a, "StoreUnavailable"))
  /\ UNCHANGED << ckpts, convs, nextId, compiledGraph, nodes, edges,
                  strm, del, addOutcome, pulled, deleted,
                  now, saverCalls, routeItems >>

\* (mutant) the first ref in place of the last
FirstRef(refs) == refs[1]

\* (mutant) the ref of the assistant message stored last, whoever stored it
NewestAssistantRef(refs) ==
  LET ids == { MessageIdOfPK(m.pk) : m \in { n \in msgs : ~n.isFromUser } }
  IN IF ids = {} THEN refs[Len(refs)]
     ELSE Ref(CHOOSE i \in ids : \A j \in ids : j <= i, FALSE)

LastRef(refs) == refs[Len(refs)]

\* dynamoDB.get of the last ref's message completes
AskRefetch(p, ok) ==
  LET a == ask[p] IN
  /\ a.pendFetch
  /\ UNCHANGED counts
  /\ Settle(p,
       IF ok
       THEN AskJoinSecond([a EXCEPT !.pendFetch = FALSE,
              !.lastMessage = GetMessage(msgs, LastRef(a.state.messageRefs).messageId)])
       ELSE IF a.pc = "finish"
            THEN Reject([a EXCEPT !.pendFetch = FALSE], "StoreUnavailable")
            ELSE [a EXCEPT !.pendFetch = FALSE])
  /\ UNCHANGED << msgs, ckpts, convs, nextId, compiledGraph, nodes, edges,
                  strm, del, addOutcome, pulled, deleted,
                  now, saverCalls, routeItems >>

\* checkpointSaver.putTuple(userId, conversationId, 'latest', ...) completes
AskPutCheckpoint(p, ok) ==
  LET a == ask[p] IN
  /\ a.pendCkpt
  /\ UNCHANGED counts
  /\ ckpts' = IF ok
              THEN putTuple(ckpts, a.userId, a.conversationId, "latest",
                            [messageRefs |-> a.state.messageRefs], AskMetadata)
              ELSE ckpts
  /\ Settle(p,
       IF ok THEN AskJoinSecond([a EXCEPT !.pendCkpt = FALSE])
       ELSE IF a.pc = "finish"
            THEN Reject([a EXCEPT !.pendCkpt = FALSE], "StoreUnavailable")
            ELSE [a EXCEPT !.pendCkpt = FALSE])
  /\ UNCHANGED << msgs, convs, nextId, compiledGraph, nodes, edges,
                  strm, del, addOutcome, pulled, deleted,
                  now, saverCalls, routeItems >>

\* ------------------------------------------------------------------ askStream
IdleStream ==
  [pc |-> "idle", userId |-> "", conversationId |-> "", checkpoint |-> Undefined,
   state |-> DefaultState, input |-> <<>>, chunks |-> <<>>,
   accumulatedContent |-> "", step |-> Undefined, yieldedContent |-> FALSE,
   yielded |-> <<>>, error |-> "", queries |-> 0, ran |-> <<>>]

StreamSettled(s) == s.pc \in {"idle", "done", "failed"}

\* the run config askStream passes to graph.stream: thread_id only
StreamConfig(s) == [userId |-> "", conversationId |-> ""]

StreamInitialState(s) ==
  [messageRefs |-> CheckpointRefs(s.checkpoint), responseChunk |-> Undefined,
   isStreaming |-> TRUE]

\* askStream is called: the generator object is made, its body has not run
StreamCall(p, userId, conversationId) ==
  /\ StreamSettled(strm[p])
  /\ counts' = [counts EXCEPT !.stream = @ + 1]
  /\ strm' = [strm EXCEPT ![p] =
                [IdleStream EXCEPT !.pc = "created", !.userId = userId,
                                   !.conversationId = conversationId]]
  /\ UNCHANGED << msgs, ckpts, convs, nextId, compiledGraph, nodes, edges, ask,
                  del, addOutcome, transcript, rejected, pulled, deleted,
                  now, saverCalls, routeItems >>

\* the consumer's first next(): the body runs to its first await
StreamPull(p) ==
  /\ strm[p].pc = "created"
  /\ compileGraph
  /\ pulled' = TRUE
  /\ strm' = [strm EXCEPT ![p].pc = "getTuple"]
  /\ UNCHANGED << msgs, ckpts, convs, nextId, nodes, ask, del, addOutcome,
                  counts, transcript, rejected, deleted,
                  now, saverCalls, routeItems >>

\* getTuple completes; the graph starts, processMessages runs, invokeLLM loads
\* the history and opens the model stream
StreamGotCheckpoint(p, ok) ==
  LET s == strm[p]
      got == [s EXCEPT !.checkpoint =
                getTuple(ckpts, s.userId, s.conversationId, "latest")]
      st == GraphStart(StreamInitialState(got))
  IN
  /\ s.pc = "getTuple"
  /\ UNCHANGED counts
  /\ strm' = [strm EXCEPT ![p] =
       IF ok
       THEN [got EXCEPT !.pc = "streaming", !.state = st,
               !.ran = <<NodeAfter("START"), NodeAfter(NodeAfter("START"))>>,
               !.queries = loadQueries(st.messageRefs, StreamConfig(s)),
               !.input = loadMessagesFromRefs(msgs, st.messageRefs, StreamConfig(s))]
       ELSE [s EXCEPT !.pc = "failed", !.error = "StoreUnavailable"]]
  /\ UNCHANGED << msgs, ckpts, convs, nextId, compiledGraph, nodes, edges, ask,
                  del, addOutcome, transcript, rejected, pulled, deleted,
                  now, saverCalls, routeItems >>

\* invokeLLM node, lines 181-184: one chunk of the model stream is read
StreamChunk(p, chunk) ==
  LET s == strm[p] IN
  /\ s.pc = "streaming"
  /\ Len(s.chunks) < MaxChunks
  /\ strm' = [strm EXCEPT ![p] =
       [s EXCEPT !.chunks = Append(@, chunk),
                 !.accumulatedContent = @ \o getMessageContent(chunk)]]
  /\ UNCHANGED << msgs, ckpts, convs, nextId, compiledGraph, nodes, edges, ask,
                  del, addOutcome, counts, transcript, rejected, pulled, deleted,
                  now, saverCalls, routeItems >>

\* the model stream throws
StreamModelThrow(p) ==
  /\ strm[p].pc = "streaming"
  /\ strm' = [strm EXCEPT ![p].pc = "failed", ![p].error = "LLM error"]
  /\ UNCHANGED << msgs, ckpts, convs, nextId, compiledGraph, nodes, edges, ask,
                  del, addOutcome, counts, transcript, rejected, pulled, deleted,
                  now, saverCalls, routeItems >>

\* (mutant) an assistant ref appended whatever the accumulated text is
StreamUpdateAlwaysAppends(s, id) ==
  [messageRefs |-> s.state.messageRefs \o <<Ref(id, FALSE)>>,
   responseChunk |-> Undefined,
   isStreaming |-> TRUE]

\* invokeLLM node, lines 185-191: the update of the streaming branch
StreamUpdate(s, id) ==
  [messageRefs |-> IF Truthy(s.accumulatedContent)
                   THEN s.state.messageRefs \o <<Ref(id, FALSE)>>
                   ELSE s.state.messageRefs,
   responseChunk |-> Undefined,
   isStreaming |-> TRUE]

\* (mutant) the streaming branch storing its answer as the other branch does
StreamPersistedAsInvoke(s, id) ==
  IF Truthy(s.accumulatedContent)
  THEN {MessageItem(id, s.accumulatedContent, FALSE, s.userId, s.conversationId)}
  ELSE {}

\* invokeLLM node, lines 177-191: the items the streaming branch puts in the
\* table (it has no dynamoDB call)
StreamPersisted(s, id) == {}

\* the model stream ends: the node returns and graph.stream emits its update
StreamModelEnd(p) ==
  LET s == strm[p]
      upd == StreamUpdate(s, nextId)
  IN
  /\ s.pc = "streaming"
  /\ nextId' = IF Truthy(s.accumulatedContent) THEN nextId + 1 ELSE nextId
  /\ strm' = [strm EXCEPT ![p] =
       [s EXCEPT !.pc = "step", !.step = Some(upd),
                 !.state = ApplyUpdate(s.state, {"messageRefs", "responseChunk"}, upd)]]
  /\ msgs' = msgs \cup StreamPersisted(s, nextId)
  /\ UNCHANGED << ckpts, convs, compiledGraph, nodes, edges, ask,
                  del, addOutcome, counts, transcript, rejected, pulled, deleted,
                  now, saverCalls, routeItems >>

\* a responseChunk that is set and not the empty string
TruthyChunk(responseChunk) ==
  responseChunk # Undefined /\ Truthy(responseChunk[1])

\* askStream, lines 417-429: the loop body on the invokeLLM step
StreamLoopBody(s) ==
  LET invokeLLMOutput == s.step[1] IN
  IF TruthyChunk(invokeLLMOutput.responseChunk)
  THEN [s EXCEPT !.yielded = Append(@, [content |-> invokeLLMOutput.responseChunk[1],
                                        done |-> FALSE]),
                 !.yieldedContent = TRUE, !.pc = "ended"]
  ELSE [s EXCEPT !.pc = "ended"]

StreamStep(p) ==
  /\ strm[p].pc = "step"
  /\ strm' = [strm EXCEPT ![p] = StreamLoopBody(strm[p])]
  /\ UNCHANGED << msgs, ckpts, convs, nextId, compiledGraph, nodes, edges, ask,
                  del, addOutcome, counts, transcript, rejected, pulled, deleted,
                  now, saverCalls, routeItems >>

\* (mutant) the sentinel yielded only after content
StreamAfterLoopOnlyAfterContent(s) ==
  IF s.yieldedContent
  THEN [s EXCEPT !.yielded = Append(@, [content |-> "", done |-> TRUE]),
                 !.pc = "sentinel"]
  ELSE [s EXCEPT !.pc = "sentinel"]

\* askStream, lines 431-436: after the loop
StreamAfterLoop(s) ==
  IF s.yieldedContent
  THEN [s EXCEPT !.yielded = Append(@, [content |-> "", done |-> TRUE]),
                 !.pc = "sentinel"]
  ELSE [s EXCEPT !.yielded = Append(@, [content |-> "", done |-> TRUE]),
                 !.pc = "sentinel"]

StreamSentinel(p) ==
  /\ strm[p].pc = "ended"
  /\ strm' = [strm EXCEPT ![p] = StreamAfterLoop(strm[p])]
  /\ UNCHANGED << msgs, ckpts, convs, nextId, compiledGraph, nodes, edges, ask,
                  del, addOutcome, counts, transcript, rejected, pulled, deleted,
                  now, saverCalls, routeItems >>

\* the consumer's next() after the sentinel: the generator returns
StreamReturn(p) ==
  /\ strm[p].pc = "sentinel"
  /\ strm' = [strm EXCEPT ![p].pc = "done"]
  /\ UNCHANGED << msgs, ckpts, convs, nextId, compiledGraph, nodes, edges, ask,
                  del, addOutcome, counts, transcript, rejected, pulled, deleted,
                  now, saverCalls, routeItems >>

\* ------------------------------------------------------------ addFeatureNode
\* (mutant) registration without the compiled check
addFeatureNodeUnguarded(nodeName) ==
  /\ addOutcome' = "added"
  /\ nodes' = nodes \cup {nodeName}

\* (mutant) the call answers without registering the node
addFeatureNodeNoRegister(nodeName) ==
  /\ addOutcome' = IF compiledGraph THEN "GraphAlreadyCompiled" ELSE "added"
  /\ nodes' = nodes

addFeatureNode(nodeName) ==
  IF compiledGraph
  THEN /\ addOutcome' = "GraphAlreadyCompiled"
       /\ nodes' = nodes
  ELSE /\ addOutcome' = "added"
       /\ nodes' = nodes \cup {nodeName}

AddFeatureNode(nodeName) ==
  /\ counts' = [counts EXCEPT !.add = @ + 1]
  /\ addFeatureNode(nodeName)
  /\ UNCHANGED << msgs, ckpts, convs, nextId, compiledGraph, edges, ask, strm,
                  del, transcript, rejected, pulled, deleted,
                  now, saverCalls, routeItems >>

\* --------------------------------------------------- conversation DELETE
\* performed: the steps of the handler that were issued; failedAt: the step
\* whose table call rejected
IdleDelete ==
  [pc |-> "idle", userId |-> "", id |-> "", pending |-> {}, error |-> "",
   performed |-> {}, failedAt |-> ""]

\* the catch block of DELETE: status 500
DeleteFailed(d) ==
  [d EXCEPT !.pc = "failed", !.error = "Failed to delete conversation",
            !.failedAt = d.pc]

DeleteSettled(d) == d.pc \in {"idle", "done", "failed"}

DelStart(p, userId, id) ==
  /\ DeleteSettled(del[p]) /\ del[p].pending = {}
  /\ counts' = [counts EXCEPT !.delete = @ + 1]
  /\ deleted' = deleted \cup {<<userId, id>>}
  /\ del' = [del EXCEPT ![p] =
               [IdleDelete EXCEPT !.pc = "query", !.userId = userId, !.id = id,
                                  !.performed = {"query"}]]
  /\ UNCHANGED << msgs, ckpts, convs, nextId, compiledGraph, nodes, edges, ask,
                  strm, addOutcome, transcript, rejected, pulled,
                  now, saverCalls, routeItems >>

\* the query of the conversation's messages completes; one delete per item
\* is issued
DelQuery(p, ok) ==
  LET d == del[p]
      items == QueryConversation(msgs, d.userId, d.id)
  IN
  /\ d.pc = "query"
  /\ UNCHANGED counts
  /\ del' = [del EXCEPT ![p] =
       IF ~ok THEN DeleteFailed(d)
       ELSE IF items = {}
       THEN [d EXCEPT !.pc = "conversation", !.performed = @ \cup {"conversation"}]
       ELSE [d EXCEPT !.pc = "messages", !.pending = { m.pk : m \in items },
                      !.performed = @ \cup {"messages"}]]
  /\ UNCHANGED << msgs, ckpts, convs, nextId, compiledGraph, nodes, edges, ask,
                  strm, addOutcome, transcript, rejected, pulled, deleted,
                  now, saverCalls, routeItems >>

\* one message delete of the Promise.all completes
DelMessage(p, pk, ok) ==
  LET d == del[p]
      left == d.pending \ {pk}
  IN
  /\ pk \in d.pending
  /\ UNCHANGED counts
  /\ msgs' = IF ok THEN DeleteMessage(msgs, pk) ELSE msgs
  /\ del' = [del EXCEPT ![p] =
       IF d.pc # "messages" THEN [d EXCEPT !.pending = left]
       ELSE IF ~ok THEN [DeleteFailed(d) EXCEPT !.pending = left]
       ELSE IF left = {}
       THEN [d EXCEPT !.pending = left, !.pc = "conversation",
                      !.performed = @ \cup {"conversation"}]
       ELSE [d EXCEPT !.pending = left]]
  /\ UNCHANGED << ckpts, convs, nextId, compiledGraph, nodes, edges, ask,
                  strm, addOutcome, transcript, rejected, pulled, deleted,
                  now, saverCalls, routeItems >>

\* the delete of the conversation record completes
DelConversation(p, ok) ==
  LET d == del[p] IN
  /\ d.pc = "conversation"
  /\ UNCHANGED counts
  /\ convs' = IF ok
              THEN DeleteConversation(convs, <<"USER#", d.userId>>, <<"CHAT#", d.id>>)
              ELSE convs
  /\ del' = [del EXCEPT ![p] =
       IF ok THEN [d EXCEPT !.pc = "checkpoint", !.performed = @ \cup {"checkpoint"}]
       ELSE DeleteFailed(d)]
  /\ UNCHANGED << msgs, ckpts, nextId, compiledGraph, nodes, edges, ask,
                  strm, addOutcome, transcript, rejected, pulled, deleted,
                  now, saverCalls, routeItems >>

\* the delete of the 'latest' checkpoint completes
DelCheckpoint(p, ok) ==
  LET d == del[p] IN
  /\ d.pc = "checkpoint"
  /\ UNCHANGED counts
  /\ ckpts' = IF ok
              THEN DeleteCheckpoint(ckpts, CheckpointPK(d.userId, d.id),
                                    CheckpointSK("latest"))
              ELSE ckpts
  /\ del' = [del EXCEPT ![p] =
       IF ok THEN [d EXCEPT !.pc = "done"]
       ELSE DeleteFailed(d)]
  /\ UNCHANGED << msgs, convs, nextId, compiledGraph, nodes, edges, ask,
                  strm, addOutcome, transcript, rejected, pulled, deleted,
                  now, saverCalls, routeItems >>

\* ------------------------------------ the message route: PUT and DELETE
\* (mutant) the route addressing the key the engine stores messages under
MessageRouteKeyOfEngine(userId, messageId) ==
  [pk |-> MessagePK(messageId), sk |-> MessagePK(messageId)]

\* the key both handlers address
MessageRouteKey(userId, messageId) ==
  [pk |-> <<"USER#", userId>>, sk |-> <<"MSG#", messageId>>]

\* the table key of a message item the engine wrote: pk = sk = MSG#id
MessageKey(m) == [pk |-> m.pk, sk |-> m.pk]

EditTexts == {"Edited"}

\* dynamoDB.update with SET content, lastModified: the item under the key is
\* changed, and created when there is none
UpdateMessages(items, key, content) ==
  { IF MessageKey(m) = key THEN [m EXCEPT !.content = content] ELSE m : m \in items }

UpdateRouteItems(items, key, content) ==
  IF \E m \in msgs : MessageKey(m) = key
  THEN items
  ELSE { i \in items : ~(i.pk = key.pk /\ i.sk = key.sk) }
       \cup { [pk |-> key.pk, sk |-> key.sk, content |-> content,
               lastModified |-> now] }

\* PUT /api/conversations/[id]/messages/[messageId]
MessagePUT(userId, messageId, content, ok) ==
  LET key == MessageRouteKey(userId, messageId) IN
  /\ counts' = [counts EXCEPT !.edit = @ + 1]
  /\ msgs' = IF ok THEN UpdateMessages(msgs, key, content) ELSE msgs
  /\ routeItems' = IF ok THEN UpdateRouteItems(routeItems, key, content)
                   ELSE routeItems
  /\ UNCHANGED << ckpts, convs, nextId, compiledGraph, nodes, edges, ask, strm,
                  del, addOutcome, transcript, rejected, pulled, deleted,
                  now, saverCalls >>

\* DELETE /api/conversations/[id]/messages/[messageId]
MessageDELETE(userId, messageId, ok) ==
  LET key == MessageRouteKey(userId, messageId) IN
  /\ counts' = [counts EXCEPT !.remove = @ + 1]
  /\ msgs' = IF ok THEN { m \in msgs : MessageKey(m) # key } ELSE msgs
  /\ routeItems' = IF ok
                   THEN { i \in routeItems : ~(i.pk = key.pk /\ i.sk = key.sk) }
                   ELSE routeItems
  /\ UNCHANGED << ckpts, convs, nextId, compiledGraph, nodes, edges, ask, strm,
                  del, addOutcome, transcript, rejected, pulled, deleted,
                  now, saverCalls >>

\* ------------------------------------- the checkpoint saver, called directly
SaverStates ==
  { [messageRefs |-> <<>>], [messageRefs |-> <<Ref(1, TRUE), Ref(2, FALSE)>>] }
SaverMetadata ==
  { AskMetadata, [source |-> "loop", step |-> 2, writes |-> "null", parents |-> {}] }

\* ---- the table's index GSI1, as list queries it
\* key schema of GSI1 in the table definition: GSI1PK (HASH), GSI1SK (RANGE)
GSI1KeySchema == {"GSI1PK", "GSI1SK"}

\* options.limit: 0 stands for a limit that is not given (and is falsy as 0)
ListLimits == {0, 1, 2}
\* options.startKey: undefined or "" (falsy), a text that is no JSON, or the
\* JSON text of a key
NoStartKey == <<>>
MalformedStartKey == <<"text", "not json">>
JSONstringify(key) == <<"json", key>>
JSONparses(text) == text[1] = "json"
JSONparse(text) == text[2]

\* the params object list builds
ListParams(userId, chatId, limit, startKey) ==
  [IndexName |-> "GSI1",
   pkName |-> "GSI1PK", pkValue |-> <<"USER#", userId>>,
   skName |-> "pk", skPrefix |-> KeyText(CheckpointPK(userId, chatId)),
   Limit |-> IF limit # 0 THEN limit ELSE 50,
   ExclusiveStartKey |-> IF startKey # NoStartKey
                         THEN Some(JSONparse(startKey)) ELSE Undefined,
   ScanIndexForward |-> FALSE]

\* the key attributes of an item read through GSI1
KeyOf(c) == [GSI1PK |-> c.GSI1PK, GSI1SK |-> c.GSI1SK, pk |-> c.pk, sk |-> c.sk]

\* items of equal GSI1SK are read in a fixed order of their primary keys
TieRank(key) ==
  2 * (IF key.pk[4] = "c1" THEN 0 ELSE 1) + (IF key.sk[2] = "latest" THEN 0 ELSE 1)

\* with ScanIndexForward false the index is read by descending GSI1SK
ScannedBefore(a, b) ==
  \/ a.GSI1SK > b.GSI1SK
  \/ a.GSI1SK = b.GSI1SK /\ TieRank(a) > TieRank(b)

RECURSIVE ScanOrder(_)
ScanOrder(S) ==
  IF S = {} THEN <<>>
  ELSE LET first == CHOOSE a \in S : \A b \in S \ {a} : ScannedBefore(a, b)
       IN <<first>> \o ScanOrder(S \ {first})

\* a key condition may name only the key attributes of the index it queries
QueryValid(params) == {params.pkName, params.skName} \subseteq GSI1KeySchema

\* '#pk = :pk AND begins_with(#sk, :sk)' evaluated on the items
Matching(items, params) ==
  { c \in items : /\ c[params.pkName] = params.pkValue
                  /\ begins_with(KeyText(c[params.skName]), params.skPrefix) }

\* dynamoDB.query of list, answered: the items after ExclusiveStartKey in
\* scan order, at most Limit of them, and LastEvaluatedKey when the read
\* stopped on the limit
QueryGSI1(items, params) ==
  LET rest == { c \in Matching(items, params) :
                  \/ params.ExclusiveStartKey = Undefined
                  \/ ScannedBefore(params.ExclusiveStartKey[1], KeyOf(c)) }
      ordered == ScanOrder(rest)
      n == IF Len(ordered) < params.Limit THEN Len(ordered) ELSE params.Limit
  IN [Items |-> SubSeq(ordered, 1, n),
      LastEvaluatedKey |-> IF Len(ordered) >= params.Limit
                           THEN Some(KeyOf(ordered[n])) ELSE Undefined]

\* how the table answers a call: "ok", or the error it rejects with. A table
\* that checks the key condition against the key schema of the index, as
\* DynamoDB does, rejects a condition on another attribute with
\* ValidationException; a client that does not check it answers the query.
TableAnswers == {"ok", "StoreUnavailable"}
QueryAnswers == TableAnswers \cup {"ValidationException"}

\* (mutant) a rejected query is issued a second time, and that one is answered
listRetriesOnce(items, userId, chatId, limit, startKey, answer) ==
  IF startKey # NoStartKey /\ ~JSONparses(startKey)
  THEN [outcome |-> "SyntaxError", storeCalls |-> 0, storeError |-> "none",
        checkpoints |-> <<>>, lastKey |-> Undefined, reported |-> Undefined]
  ELSE LET result == QueryGSI1(items, ListParams(userId, chatId, limit, startKey))
       IN [outcome |-> "resolved",
           storeCalls |-> IF answer # "ok" THEN 2 ELSE 1,
           storeError |-> IF answer # "ok" THEN answer ELSE "none",
           checkpoints |-> result.Items,
           lastKey |-> IF result.LastEvaluatedKey # Undefined
                       THEN JSONstringify(result.LastEvaluatedKey[1])
                       ELSE Undefined,
           reported |-> result.LastEvaluatedKey]

\* DynamoDBCheckpointSaver.list: outcome, the number of table calls made, and
\* the page
list(items, userId, chatId, limit, startKey, answer) ==
  IF startKey # NoStartKey /\ ~JSONparses(startKey)
  THEN [outcome |-> "SyntaxError", storeCalls |-> 0, storeError |-> "none",
        checkpoints |-> <<>>, lastKey |-> Undefined, reported |-> Undefined]
  ELSE IF answer # "ok"
  THEN [outcome |-> answer, storeCalls |-> 1, storeError |-> answer,
        checkpoints |-> <<>>, lastKey |-> Undefined, reported |-> Undefined]
  ELSE LET result == QueryGSI1(items, ListParams(userId, chatId, limit, startKey))
       IN [outcome |-> "resolved", storeCalls |-> 1, storeError |-> "none",
           checkpoints |-> result.Items,
           lastKey |-> IF result.LastEvaluatedKey # Undefined
                       THEN JSONstringify(result.LastEvaluatedKey[1])
                       ELSE Undefined,
           reported |-> result.LastEvaluatedKey]

\* a walk through the pages of one listing: the arguments of its first call,
\* the items returned so far, the lastKey of the latest page, what the query
\* matched when the walk began, and whether the table was left alone since
IdleWalk ==
  [open |-> FALSE, userId |-> "", chatId |-> "", limit |-> 0, seen |-> <<>>,
   lastKey |-> Undefined, began |-> <<>>, quiet |-> TRUE]

NoArgs == [userId |-> "", chatId |-> "", limit |-> 0, startKey |-> NoStartKey]

IdleSaver ==
  [puts |-> 0, outcome |-> "none", last |-> [k \in SaverKeys |-> Undefined],
   reads |-> 0, op |-> "none", storeCalls |-> 0, storeError |-> "none",
   changed |-> FALSE, args |-> NoArgs, page |-> Undefined, got |-> Undefined,
   walk |-> IdleWalk]

\* what the caller knows of the latest successful putTuple on a key: the state
\* and metadata it passed, when it did, and whether the successful putTuple
\* before it on the key passed the same state
PutRecord(before, state, metadata) ==
  [state |-> state, metadata |-> metadata, at |-> now,
   repeated |-> (before # Undefined /\ before[1].state = state),
   after |-> IF before = Undefined THEN now ELSE before[1].at]

\* putTuple(userId, chatId, checkpointId, state, metadata) is called and its
\* dynamoDB.put completes
SaverPut(key, state, metadata, ok) ==
  /\ ckpts' = IF ok
              THEN putTuple(ckpts, key[1], key[2], key[3], state, metadata)
              ELSE ckpts
  /\ saverCalls' =
       [saverCalls EXCEPT
          !.puts = @ + 1,
          !.outcome = IF ok THEN "resolved" ELSE "StoreUnavailable",
          !.last = IF ok
                   THEN [@ EXCEPT ![key] = Some(PutRecord(@, state, metadata))]
                   ELSE @,
          !.op = "putTuple", !.storeCalls = 1,
          !.storeError = IF ok THEN "none" ELSE "StoreUnavailable",
          !.changed = (ckpts' # ckpts),
          !.args = NoArgs, !.page = Undefined, !.got = Undefined,
          !.walk = [@ EXCEPT !.quiet = @ /\ ~(saverCalls.walk.open /\ ok)]]
  /\ UNCHANGED << msgs, convs, nextId, compiledGraph, nodes, edges, ask, strm,
                  del, addOutcome, counts, transcript, rejected, pulled, deleted,
                  now, routeItems >>

\* getTuple(userId, chatId, checkpointId) is called and its dynamoDB.get
\* completes
SaverGet(key, ok) ==
  /\ ckpts' = ckpts
  /\ saverCalls' =
       [saverCalls EXCEPT
          !.reads = @ + 1,
          !.outcome = IF ok THEN "resolved" ELSE "StoreUnavailable",
          !.op = "getTuple", !.storeCalls = 1,
          !.storeError = IF ok THEN "none" ELSE "StoreUnavailable",
          !.changed = (ckpts' # ckpts),
          !.args = NoArgs, !.page = Undefined,
          !.got = IF ok THEN Some(getTuple(ckpts, key[1], key[2], key[3]))
                  ELSE Undefined]
  /\ UNCHANGED << msgs, convs, nextId, compiledGraph, nodes, edges, ask,
                  strm, del, addOutcome, counts, transcript, rejected, pulled,
                  deleted, now, routeItems >>

\* list(userId, chatId, {limit, startKey}) is called and completes; a call
\* without startKey begins a walk, a call with the lastKey of the walk's
\* latest page and the walk's arguments continues it
SaverList(userId, chatId, limit, startKey, answer) ==
  LET params == ListParams(userId, chatId, limit, startKey)
      r == list(ckpts, userId, chatId, limit, startKey, answer)
      w == saverCalls.walk
      first == startKey = NoStartKey
      continues == /\ w.open /\ ~first /\ startKey = w.lastKey
                   /\ userId = w.userId /\ chatId = w.chatId /\ limit = w.limit
  IN /\ answer = "ValidationException" => ~QueryValid(params)
     /\ ckpts' = ckpts
     /\ saverCalls' =
          [saverCalls EXCEPT
             !.reads = @ + 1,
             !.outcome = r.outcome,
             !.op = "list", !.storeCalls = r.storeCalls,
             !.storeError = r.storeError,
             !.changed = (ckpts' # ckpts),
             !.args = [userId |-> userId, chatId |-> chatId, limit |-> limit,
                       startKey |-> startKey],
             !.page = IF r.outcome = "resolved"
                      THEN Some([checkpoints |-> r.checkpoints,
                                 lastKey |-> r.lastKey, reported |-> r.reported])
                      ELSE Undefined,
             !.got = Undefined,
             !.walk = IF r.outcome # "resolved" THEN @
                      ELSE IF ~(first \/ continues) THEN IdleWalk
                      ELSE [open |-> TRUE, userId |-> userId, chatId |-> chatId,
                            limit |-> limit,
                            seen |-> (IF first THEN <<>> ELSE w.seen) \o r.checkpoints,
                            lastKey |-> r.lastKey,
                            began |-> IF first
                                      THEN ScanOrder(Matching(ckpts, params))
                                      ELSE w.began,
                            quiet |-> first \/ w.quiet]]
     /\ UNCHANGED << msgs, convs, nextId, compiledGraph, nodes, edges, ask,
                     strm, del, addOutcome, counts, transcript, rejected, pulled,
                     deleted, now, routeItems >>

\* time passes between two calls of the saver
Tick ==
  /\ now <= saverCalls.puts
  /\ now' = now + 1
  /\ UNCHANGED << msgs, ckpts, convs, nextId, compiledGraph, nodes, edges, ask,
                  strm, del, addOutcome, counts, transcript, rejected, pulled,
                  deleted, saverCalls, routeItems >>

\* ------------------------------------------------------------ specifications
Init ==
  /\ msgs = {}
  /\ ckpts = {}
  /\ convs = { ConversationItem(s[1], s[2]) : s \in Scopes }
  /\ nextId = 1
  /\ compiledGraph = FALSE
  /\ nodes = {"processMessages", "invokeLLM"}
  /\ edges = <<>>
  /\ ask = [p \in AskSlots |-> IdleAsk]
  /\ strm = [p \in StreamSlots |-> IdleStream]
  /\ del = [p \in DeleteSlots |-> IdleDelete]
  /\ addOutcome = "none"
  /\ counts = [ask |-> 0, stream |-> 0, add |-> 0, delete |-> 0,
               edit |-> 0, remove |-> 0]
  /\ transcript = [s \in Scopes |-> <<>>]
  /\ rejected = [s \in Scopes |-> FALSE]
  /\ pulled = FALSE
  /\ deleted = {}
  /\ now = 0
  /\ saverCalls = IdleSaver
  /\ routeItems = {}

\* a request arrives
AskCall(slots, conversations, texts) ==
  \E p \in slots, u \in Users, c \in conversations, t \in texts :
     AskStart(p, u, c, t)

StreamCalls(conversations) ==
  \E p \in StreamSlots, u \in Users, c \in conversations : StreamCall(p, u, c)

DeleteCalls ==
  \E p \in DeleteSlots, u \in Users, c \in Convs : DelStart(p, u, c)

\* a request in flight takes its next step
AskSteps(oks) ==
  \/ \E p \in AskSlots, ok \in oks : AskGetCheckpoint(p, ok)
  \/ \E p \in AskSlots, ok \in oks : AskPutUser(p, ok)
  \/ \E p \in AskSlots, ok \in oks : AskLoadMessages(p, ok)
  \/ \E p \in AskSlots, content \in ModelReplies : AskModelInvoke(p, content)
  \/ \E p \in AskSlots : AskModelThrow(p)
  \/ \E p \in AskSlots, ok \in oks : AskPutAssistant(p, ok)
  \/ \E p \in AskSlots, ok \in oks : AskRefetch(p, ok)
  \/ \E p \in AskSlots, ok \in oks : AskPutCheckpoint(p, ok)

StreamSteps ==
  \/ \E p \in StreamSlots : StreamPull(p)
  \/ \E p \in StreamSlots, ok \in BOOLEAN : StreamGotCheckpoint(p, ok)
  \/ \E p \in StreamSlots, chunk \in ModelChunks : StreamChunk(p, chunk)
  \/ \E p \in StreamSlots : StreamModelThrow(p)
  \/ \E p \in StreamSlots : StreamModelEnd(p)
  \/ \E p \in StreamSlots : StreamStep(p)
  \/ \E p \in StreamSlots : StreamSentinel(p)
  \/ \E p \in StreamSlots : StreamReturn(p)

DeleteSteps(oks) ==
  \/ \E p \in DeleteSlots, ok \in oks : DelQuery(p, ok)
  \/ \E p \in DeleteSlots, ok \in oks :
       \E pk \in del[p].pending : DelMessage(p, pk, ok)
  \/ \E p \in DeleteSlots, ok \in oks : DelConversation(p, ok)
  \/ \E p \in DeleteSlots, ok \in oks : DelCheckpoint(p, ok)

\* no request is in flight from its caller's point of view
Quiet ==
  /\ \A p \in AskSlots : AskSettled(ask[p])
  /\ \A p \in StreamSlots : StreamSettled(strm[p])
  /\ \A p \in DeleteSlots : DeleteSettled(del[p])

\* ask calls and conversation DELETE requests overlap freely; no table
\* operation fails
Next ==
  \/ counts.ask < MaxOverlap /\ AskCall(AskSlots, Convs, UserTexts)
  \/ counts.delete < MaxDeletes /\ DeleteCalls
  \/ AskSteps({TRUE})
  \/ DeleteSteps({TRUE})
Spec == Init /\ [][Next]_vars

\* sequential use: each ask is called after the one before it has settled; no
\* table operation fails
NextSeq ==
  \/ Quiet /\ counts.ask < MaxAsks /\ AskCall({"a1"}, Convs, UserTexts)
  \/ AskSteps({TRUE})
SpecSeq == Init /\ [][NextSeq]_vars

\* the graph's life: ask and askStream calls on one conversation, one after
\* the other, and addFeatureNode calls at any time; only the checkpoint read of
\* askStream may fail
NextGraph ==
  \/ Quiet /\ counts.ask + counts.stream < MaxStreams
           /\ AskCall({"a1"}, {"c1"}, {"Hello"})
  \/ Quiet /\ counts.ask + counts.stream < MaxStreams /\ StreamCalls({"c1"})
  \/ AskSteps({TRUE})
  \/ StreamSteps
  \/ \E n \in NodeNames : counts.add < MaxAdds /\ AddFeatureNode(n)
SpecGraph == Init /\ [][NextGraph]_vars

\* sequential use where any table operation may fail
NextFail ==
  \/ Quiet /\ counts.ask < MaxOverlap /\ AskCall({"a1"}, Convs, UserTexts)
  \/ AskSteps(BOOLEAN)
SpecFail == Init /\ [][NextFail]_vars

\* nothing is in flight: no call is unsettled and no table operation of a
\* settled call is still running
Still ==
  /\ Quiet
  /\ \A p \in AskSlots : ~AskPending(ask[p])
  /\ \A p \in DeleteSlots : del[p].pending = {}

\* turns, then conversation DELETE requests, made one after the other; any
\* table operation of a DELETE may fail
NextDelete ==
  \/ Still /\ counts.delete = 0 /\ counts.ask < MaxOverlap
       /\ AskCall({"a1"}, Convs, {"Hello"})
  \/ Still /\ counts.delete < MaxDeletes /\ DeleteCalls
  \/ AskSteps({TRUE})
  \/ DeleteSteps(BOOLEAN)
SpecDelete == Init /\ [][NextDelete]_vars

\* turns, streams and conversation DELETE requests on one conversation, made
\* one after the other; the table operations of a DELETE may fail, which can
\* leave a checkpoint whose refs name deleted messages
NextLoad ==
  \/ Still /\ counts.ask + counts.stream < MaxStreams
       /\ AskCall({"a1"}, {"c1"}, {"Hello"})
  \/ Still /\ counts.ask + counts.stream < MaxStreams /\ StreamCalls({"c1"})
  \/ Still /\ counts.delete < MaxDeletes
       /\ \E p \in DeleteSlots : DelStart(p, "u1", "c1")
  \/ AskSteps({TRUE})
  \/ StreamSteps
  \/ DeleteSteps(BOOLEAN)
SpecLoad == Init /\ [][NextLoad]_vars

\* turns on a conversation whose 'latest' checkpoint a caller of putTuple has
\* stored: the graph input, and with it the reducer's arguments, hold whatever
\* refs that caller passed
StoredRefLists ==
  { <<>>, <<Ref(11, TRUE)>>, <<Ref(11, TRUE), Ref(12, FALSE)>>,
    <<Ref(11, TRUE), Ref(11, TRUE)>> }
NextMerge ==
  \/ Still /\ counts.ask < MaxOverlap /\ AskCall({"a1"}, {"c1"}, {"Hello"})
  \/ AskSteps({TRUE})
  \/ \E refs \in StoredRefLists :
       /\ Still /\ saverCalls.puts < MaxPuts
       /\ SaverPut(<<"u1", "c1", "latest">>, [messageRefs |-> refs], AskMetadata, TRUE)
SpecMerge == Init /\ [][NextMerge]_vars

\* turns and streams on one conversation with edits of single messages in
\* between, then deletes of single messages, then one conversation DELETE,
\* one request after the other; no table operation fails
\* the identifiers of the first turn's two messages
MessageIds == {1, 2}
NextEdit ==
  \/ Still /\ counts.delete = 0 /\ counts.remove = 0
           /\ counts.ask + counts.stream < MaxOverlap
           /\ AskCall({"a1"}, {"c1"}, {"Hello"})
  \/ Still /\ counts.delete = 0 /\ counts.remove = 0
           /\ counts.ask + counts.stream < MaxOverlap
           /\ StreamCalls({"c1"})
  \/ Still /\ counts.delete = 0
           /\ \E p \in DeleteSlots, u \in Users : DelStart(p, u, "c1")
  \/ AskSteps({TRUE})
  \/ StreamSteps
  \/ DeleteSteps({TRUE})
  \/ \E u \in Users, id \in MessageIds, text \in EditTexts :
       Still /\ counts.edit < MaxEdits /\ MessagePUT(u, id, text, TRUE)
  \/ \E u \in Users, id \in MessageIds :
       Still /\ counts.remove < MaxEdits /\ MessageDELETE(u, id, TRUE)
SpecEdit == Init /\ [][NextEdit]_vars

\* ask calls on different conversations overlap freely, each conversation's
\* calls coming one after the other from its own caller; no table operation
\* fails
CallerOf(conversationId) == IF conversationId = "c1" THEN "a1" ELSE "a2"
NextScopes ==
  \/ \E c \in Convs : counts.ask < MaxOverlap /\ AskCall({CallerOf(c)}, {c}, UserTexts)
  \/ AskSteps({TRUE})
SpecScopes == Init /\ [][NextScopes]_vars

\* turns on one conversation and a conversation DELETE of it overlap freely;
\* no turn starts once a DELETE has completed; no table operation fails
NextDeleteRace ==
  \/ /\ counts.ask < MaxOverlap
     /\ \A p \in DeleteSlots : del[p].pc # "done"
     /\ AskCall({"a1"}, {"c1"}, {"Hello"})
  \/ counts.delete < MaxDeletes
       /\ \E p \in DeleteSlots, u \in Users : DelStart(p, u, "c1")
  \/ AskSteps({TRUE})
  \/ DeleteSteps({TRUE})
SpecDeleteRace == Init /\ [][NextDeleteRace]_vars

\* ask calls on one conversation overlap freely; no table operation fails
NextRace ==
  \/ counts.ask < MaxOverlap /\ AskCall(AskSlots, {"c1"}, UserTexts)
  \/ AskSteps({TRUE})
SpecRace == Init /\ [][NextRace]_vars

\* sequential use where the conversation index may lag behind the write of the
\* user message; no table operation fails
NextLag ==
  \/ Quiet /\ counts.ask < MaxOverlap /\ AskCall({"a1"}, Convs, UserTexts)
  \/ AskSteps({TRUE})
  \/ \E p \in AskSlots : AskLoadMessagesLagging(p)
SpecLag == Init /\ [][NextLag]_vars

\* the checkpoint saver used directly, with time passing between the calls;
\* its table operation may fail
NextStore ==
  \/ \E key \in SaverKeys, state \in SaverStates, metadata \in SaverMetadata,
        ok \in BOOLEAN :
       saverCalls.puts < MaxPuts /\ SaverPut(key, state, metadata, ok)
  \/ Tick
SpecStore == Init /\ [][NextStore]_vars

\* the three operations of the checkpoint saver called directly, with any
\* startKey text, and any table call may fail
StartKeys == {NoStartKey, MalformedStartKey}
               \cup { JSONstringify(KeyOf(c)) : c \in ckpts }
OpsKeys == ({"u1"} \X SaverChats \X SaverCheckpointIds) \cup {<<"u2", "c1", "latest">>}
NextOps ==
  \/ \E key \in OpsKeys, ok \in BOOLEAN :
       saverCalls.puts < MaxPuts /\ SaverPut(key, [messageRefs |-> <<>>], AskMetadata, ok)
  \/ \E key \in SaverKeys, ok \in BOOLEAN :
       saverCalls.reads < MaxReads /\ SaverGet(key, ok)
  \/ \E userId \in SaverUsers, chatId \in SaverChats, startKey \in StartKeys,
        answer \in QueryAnswers :
       saverCalls.reads < MaxReads /\ SaverList(userId, chatId, 0, startKey, answer)
SpecOps == Init /\ [][NextOps]_vars

\* checkpoints are put as time passes, and a caller walks through the pages
\* of a listing, feeding each lastKey back as startKey
NextList ==
  \/ \E key \in OpsKeys :
       saverCalls.puts < MaxPuts /\ SaverPut(key, [messageRefs |-> <<>>], AskMetadata, TRUE)
  \/ \E userId \in {"u1"}, chatId \in SaverChats, limit \in ListLimits,
        startKey \in {NoStartKey, saverCalls.walk.lastKey},
        answer \in {"ok", "ValidationException"} :
       saverCalls.reads < MaxPages /\ SaverList(userId, chatId, limit, startKey, answer)
  \/ Tick
SpecList == Init /\ [][NextList]_vars

\* =================================================================== claims
ScopeOf(a) == <<a.userId, a.conversationId>>
Turns(s) == Len(transcript[s]) \div 2
InFlightOn(s) ==
  \E p \in AskSlots : ScopeOf(ask[p]) = s /\ (~AskSettled(ask[p]) \/ AskPending(ask[p]))
NoDuplicateIds(refs) == Cardinality(RefIds(refs)) = Len(refs)
LatestOf(a) == getTuple(ckpts, a.userId, a.conversationId, "latest")
\* the call has written no message after its user message (identifiers grow)
NoAssistantMessageOf(a) ==
  \A m \in msgs : MessageIdOfPK(m.pk) <= a.userMessageId
\* trimming, on the texts of the model: the whitespace-only texts trim to ""
Trim(text) == IF text \in {"", " "} THEN "" ELSE text
Sentinel == [content |-> "", done |-> TRUE]

\* C1: after N sequential successful ask calls on a scope that started with no
\* checkpoint, the 'latest' checkpoint holds exactly 2N refs, with no messageId
\* twice.
C1_TwoRefsPerTurn ==
  \A s \in Scopes :
    (~rejected[s] /\ ~InFlightOn(s)) =>
      /\ Len(LatestRefs(s)) = 2 * Turns(s)
      /\ NoDuplicateIds(LatestRefs(s))

C1_Witness ==
  \E s \in Scopes :
    /\ ~rejected[s] /\ ~InFlightOn(s)
    /\ Turns(s) = 3 /\ Len(LatestRefs(s)) = 6

C3_ReturnsModelText ==
  \A p \in AskSlots :
    LET a == ask[p] IN
    a.pc = "done" =>
      /\ a.result = Some([content |-> getMessageContent(a.reply[1]),
                          role |-> "assistant"])
      /\ GetMessage(msgs, a.assistantMessageId) =
           Some(MessageItem(a.assistantMessageId, getMessageContent(a.reply[1]),
                            FALSE, a.userId, a.conversationId))
      /\ a.checkpoint = Undefined => Len(LatestRefs(ScopeOf(a))) = 2

C3_Witness ==
  \E p \in AskSlots :
    /\ ask[p].pc = "done" /\ ask[p].checkpoint = Undefined
    /\ ask[p].content = "Hello"
    /\ ask[p].result = Some([content |-> "Hi there", role |-> "assistant"])
    /\ Len(LatestRefs(ScopeOf(ask[p]))) = 2

\* C4: when model.invoke throws, ask rejects with that error, the call has
\* persisted no assistant message, no checkpoint write is issued and the
\* 'latest' checkpoint is what the call read.
C4_ModelErrorLeavesCheckpoint ==
  \A p \in AskSlots :
    LET a == ask[p] IN
    a.error = "LLM error" =>
      /\ a.pc = "rejected"
      /\ ~AskPending(a)
      /\ NoAssistantMessageOf(a)
      /\ LatestOf(a) = a.checkpoint

C4_Witness ==
  \E p \in AskSlots :
    /\ ask[p].pc = "rejected" /\ ask[p].error = "LLM error"
    /\ Len(LatestRefs(ScopeOf(ask[p]))) = 2

\* C5: when model.invoke returns the empty string (or any content whose text
\* is empty), ask rejects with the empty-response error, writes no assistant
\* message and does not advance the 'latest' checkpoint.
C5_EmptyReplyRejected ==
  \A p \in AskSlots :
    LET a == ask[p] IN
    (a.reply # Undefined /\ getMessageContent(a.reply[1]) = "") =>
      /\ a.pc = "rejected"
      /\ a.error = "Empty response from LLM"
      /\ ~AskPending(a)
      /\ NoAssistantMessageOf(a)
      /\ LatestOf(a) = a.checkpoint

C5_Witness ==
  \E p \in AskSlots :
    /\ ask[p].reply = Some(StringContent(""))
    /\ ask[p].pc = "rejected"
    /\ Len(LatestRefs(ScopeOf(ask[p]))) = 2

\* C6: when model.invoke returns whitespace-only content, ask rejects with an
\* empty-response error, persists no assistant message and does not advance
\* the checkpoint; ask never resolves with content that is empty after
\* trimming.
C6_WhitespaceRejected ==
  \A p \in AskSlots :
    LET a == ask[p] IN
    /\ (AskSettled(a) /\ a.reply # Undefined
          /\ Trim(getMessageContent(a.reply[1])) = "") =>
         /\ a.pc = "rejected"
         /\ NoAssistantMessageOf(a)
         /\ LatestOf(a) = a.checkpoint
    /\ a.pc = "done" => Trim(a.result[1].content) # ""

\* C7: when the re-fetch after the turn finds the last ref's message missing
\* or with empty content, ask rejects and the 'latest' checkpoint has not been
\* advanced by that call.
C7_LostResponseLeavesCheckpoint ==
  \A p \in AskSlots :
    LET a == ask[p] IN
    (a.pc = "rejected"
       /\ a.error \in {"Failed to load assistant response",
                       "Empty response from assistant"}) =>
      a.assistantMessageId \notin RefIds(LatestRefs(ScopeOf(a)))

C9_SentinelLast ==
  \A p \in StreamSlots :
    LET s == strm[p]
        y == s.yielded
    IN /\ s.pc \in {"sentinel", "done"} =>
            /\ Len(y) >= 1
            /\ y[Len(y)] = Sentinel
            /\ \A i \in 1..(Len(y) - 1) : ~y[i].done /\ y[i].content # ""
       /\ s.pc \notin {"sentinel", "done"} => \A i \in 1..Len(y) : ~y[i].done

C9_Witness ==
  \E p \in StreamSlots :
    /\ strm[p].pc = "done"
    /\ strm[p].chunks = <<>>
    /\ strm[p].yielded = <<Sentinel>>

RECURSIVE ContentElements(_)
ContentElements(chunks) ==
  IF chunks = <<>> THEN <<>>
  ELSE (IF getMessageContent(Head(chunks)) # ""
        THEN <<[content |-> getMessageContent(Head(chunks)), done |-> FALSE]>>
        ELSE <<>>)
       \o ContentElements(Tail(chunks))

\* C10: the consumer of askStream observes one {content: c, done: false} per
\* non-empty chunk c of the model stream, in the model's order, and then the
\* sentinel.
C10_ChunksObserved ==
  \A p \in StreamSlots :
    strm[p].pc \in {"sentinel", "done"} =>
      strm[p].yielded = ContentElements(strm[p].chunks) \o <<Sentinel>>

\* a ref names a message of the scope that is in the table, with the ref's
\* isFromUser flag
RefWritten(userId, conversationId, ref) ==
  \E m \in msgs :
    /\ m.pk = MessagePK(ref.messageId)
    /\ m.isFromUser = ref.isFromUser
    /\ m.GSI1PK = ConversationGSI1PK(userId, conversationId)

RefsWritten(userId, conversationId, refs) ==
  \A i \in 1..Len(refs) : RefWritten(userId, conversationId, refs[i])

\* C11: every ref of a persisted 'latest' checkpoint, and of a checkpoint write
\* that has been issued, names a message whose write had completed (no message
\* is ever removed in this specification, so the table holds exactly the
\* completed writes); table operations may fail.
C11_RefsNameWrittenMessages ==
  /\ \A s \in Scopes : RefsWritten(s[1], s[2], LatestRefs(s))
  /\ \A p \in AskSlots :
       ask[p].pendCkpt =>
         RefsWritten(ask[p].userId, ask[p].conversationId, ask[p].state.messageRefs)

C11_Witness ==
  \E s \in Scopes :
    /\ rejected[s]
    /\ Len(LatestRefs(s)) = 2
    /\ \E m \in QueryConversation(msgs, s[1], s[2]) :
         MessageIdOfPK(m.pk) \notin RefIds(LatestRefs(s))

\* the two messages of a resolved call are in the table and no ref of refs
\* names them
TurnUnreferenced(a, refs) ==
  /\ GetMessage(msgs, a.userMessageId) # Undefined
  /\ GetMessage(msgs, a.assistantMessageId) # Undefined
  /\ {a.userMessageId, a.assistantMessageId} \cap RefIds(refs) = {}

\* C12: when two ask calls on one scope read the same 'latest' checkpoint and
\* both resolve, the checkpoint is the state one of them wrote: the refs both
\* read followed by that turn's two refs, while the other turn's two messages
\* are in the table and unreferenced.
C12_LastWriteWins ==
  \A p, q \in AskSlots :
    LET a == ask[p]
        b == ask[q]
        common == CheckpointRefs(a.checkpoint)
        latest == LatestRefs(ScopeOf(a))
    IN (p # q /\ a.pc = "done" /\ b.pc = "done" /\ ScopeOf(a) = ScopeOf(b)
          /\ a.checkpoint = b.checkpoint) =>
         /\ latest \in {a.state.messageRefs, b.state.messageRefs}
         /\ Len(latest) = Len(common) + 2
         /\ SubSeq(latest, 1, Len(common)) = common
         /\ latest = a.state.messageRefs => TurnUnreferenced(b, latest)
         /\ latest = b.state.messageRefs => TurnUnreferenced(a, latest)

C12_Witness ==
  /\ ask["a1"].pc = "done" /\ ask["a2"].pc = "done"
  /\ ask["a1"].checkpoint = Undefined /\ ask["a2"].checkpoint = Undefined
  /\ ask["a1"].userMessageId < ask["a2"].userMessageId
  /\ LatestRefs(ScopeOf(ask["a1"])) = ask["a1"].state.messageRefs
  /\ Cardinality(QueryConversation(msgs, "u1", "c1")) = 4

\* the graph of the call has returned, so its second Promise.all (re-fetch and
\* checkpoint write) has been issued
PutIssued(a) == a.state.responseChunk # Undefined

\* C13: in every ask turn the checkpoint write is issued after the user-message
\* write and the assistant-message write have completed, no message write is in
\* flight or issued once it has been, and until it is issued the 'latest'
\* checkpoint is the one of before the turn (sequential calls; table
\* operations may fail at any point).
C13_CheckpointWrittenLast ==
  \A p \in AskSlots :
    LET a == ask[p] IN
    /\ a.pendCkpt =>
         /\ PutIssued(a) /\ ~a.pendPut /\ a.pc # "persist"
         /\ RefWritten(a.userId, a.conversationId, Ref(a.userMessageId, TRUE))
         /\ RefWritten(a.userId, a.conversationId, Ref(a.assistantMessageId, FALSE))
    /\ (a.pendPut \/ a.pc \in {"start", "graph", "invoke", "persist"}) =>
         ~PutIssued(a) /\ ~a.pendCkpt
    /\ (a.pc # "idle" /\ ~PutIssued(a)) => LatestOf(a) = a.preTurn

C13_Witness ==
  \E p \in AskSlots :
    LET a == ask[p] IN
    /\ a.pc = "rejected" /\ a.error = "StoreUnavailable"
    /\ a.assistantMessageId # 0 /\ ~PutIssued(a)
    /\ RefWritten(a.userId, a.conversationId, Ref(a.userMessageId, TRUE))
    /\ Len(CheckpointRefs(a.preTurn)) = 2
    /\ LatestOf(a) = a.preTurn

\* C14: the model is invoked only once the checkpoint read and the
\* user-message write have both succeeded; when one of them, the history
\* query or the assistant-message write fails, ask rejects with the store
\* error, issues nothing more and leaves the 'latest' checkpoint as it was, and
\* when the failure comes before the graph run the model is never invoked.
C14_StoreFailureRejects ==
  \A p \in AskSlots :
    LET a == ask[p] IN
    /\ (a.pc \in {"invoke", "persist", "finish", "done"} \/ a.reply # Undefined) =>
         /\ ~a.pendGet /\ ~a.pendPut
         /\ a.checkpoint = a.preTurn
         /\ RefWritten(a.userId, a.conversationId, Ref(a.userMessageId, TRUE))
    /\ (a.error = "StoreUnavailable" /\ ~PutIssued(a)) =>
         /\ a.pc = "rejected"
         /\ ~a.pendFetch /\ ~a.pendCkpt
         /\ LatestOf(a) = a.preTurn
         /\ a.state.messageRefs = <<>> => a.reply = Undefined

C14_Witness ==
  \E p \in AskSlots :
    LET a == ask[p] IN
    /\ a.pc = "rejected" /\ a.error = "StoreUnavailable"
    /\ a.state.messageRefs = <<>> /\ a.reply = Undefined
    /\ ~a.pendGet /\ ~a.pendPut
    /\ GetMessage(msgs, a.userMessageId) = Undefined
    /\ Len(CheckpointRefs(a.preTurn)) = 2
    /\ LatestOf(a) = a.preTurn

\* C15: once an ask has failed with its user message persisted, no checkpoint
\* references that message; the history a later ask sends to the model is the
\* resolved turns followed by its own utterance, and the checkpoint it writes
\* holds the refs of the resolved turns only.
C15_FailedTurnOrphaned ==
  \A p \in AskSlots :
    LET a == ask[p]
        s == ScopeOf(a)
        resolved == IF a.pc = "done"
                    THEN SubSeq(transcript[s], 1, Len(transcript[s]) - 2)
                    ELSE transcript[s]
    IN /\ (a.pc = "rejected" /\ ~AskPending(a)
            /\ GetMessage(msgs, a.userMessageId) # Undefined) =>
             a.userMessageId \notin RefIds(LatestRefs(s))
       /\ a.pc \in {"invoke", "persist", "finish", "done"} =>
             a.input = resolved \o <<HumanMessage(a.content)>>
       /\ a.pc = "done" => Len(LatestRefs(s)) = Len(transcript[s])

\* C16: the input ask gives the model always ends with the new user utterance,
\* whether or not the user message just written is visible to the query of the
\* conversation index.
C16_UtteranceInModelInput ==
  \A p \in AskSlots :
    LET a == ask[p] IN
    a.pc \in {"invoke", "persist", "finish", "done"} =>
      /\ Len(a.input) >= 1
      /\ a.input[Len(a.input)] = HumanMessage(a.content)

\* the run config carries no userId or no conversationId
MissingContext(config) == config.userId = "" \/ config.conversationId = ""

\* the graph run of an askStream has entered invokeLLM
StreamReachedInvoke(s) == s.state.isStreaming

\* C17: whenever invokeLLM is reached with a run config lacking userId or
\* conversationId, in the streaming or the non-streaming branch, the turn has
\* failed with the missing-context error: the model is not called on an
\* emptied history and the run does not go on.
C17_MissingContextFails ==
  /\ \A p \in StreamSlots :
       LET s == strm[p] IN
       (StreamReachedInvoke(s) /\ MissingContext(StreamConfig(s))) =>
         /\ s.pc = "failed"
         /\ s.error = "Missing userId or conversationId in request"
  /\ \A p \in AskSlots :
       LET a == ask[p] IN
       a.pc \in {"invoke", "persist", "finish", "done"} =>
         ~MissingContext(AskConfig(a))

\* the table holds a checkpoint record of the key
HasRecord(userId, chatId, checkpointId) ==
  \E c \in ckpts : /\ c.pk = CheckpointPK(userId, chatId)
                   /\ c.sk = CheckpointSK(checkpointId)

\* C18: getTuple of a key with no record is undefined, and an ask that read no
\* 'latest' checkpoint runs its graph on the refs of its own turn alone: its
\* user ref, then its assistant ref.
C18_NotFoundIsUndefined ==
  /\ \A u \in Users, c \in Convs, id \in SaverCheckpointIds :
       ~HasRecord(u, c, id) => getTuple(ckpts, u, c, id) = Undefined
  /\ \A p \in AskSlots :
       LET a == ask[p] IN
       (a.checkpoint = Undefined /\ a.preTurn = Undefined) =>
         /\ a.pc \in {"graph", "invoke", "persist"} =>
              a.state.messageRefs = <<Ref(a.userMessageId, TRUE)>>
         /\ a.pc \in {"finish", "done"} =>
              a.state.messageRefs = <<Ref(a.userMessageId, TRUE),
                                      Ref(a.assistantMessageId, FALSE)>>

C18_Witness ==
  \E p \in AskSlots :
    LET a == ask[p] IN
    /\ a.pc = "done" /\ a.preTurn = Undefined /\ a.checkpoint = Undefined
    /\ HasRecord(a.userId, a.conversationId, "latest")
    /\ getTuple(ckpts, a.userId, a.conversationId, "cp1") = Undefined
    /\ \E c \in Convs : getTuple(ckpts, a.userId, c, "latest") = Undefined

\* the checkpoint records the table holds under a key
RecordsOf(key) ==
  { c \in ckpts : c.pk = CheckpointPK(key[1], key[2]) /\ c.sk = CheckpointSK(key[3]) }

\* C19: when putTuple has succeeded twice in a row on a key with the same
\* state, getTuple returns that state, and the table holds exactly one record
\* of the key, stamped by the second call.
C19_RepeatedPutKeepsState ==
  \A key \in SaverKeys :
    LET l == saverCalls.last[key] IN
    (l # Undefined /\ l[1].repeated) =>
      /\ getTuple(ckpts, key[1], key[2], key[3]) # Undefined
      /\ getTuple(ckpts, key[1], key[2], key[3])[1][1] = l[1].state
      /\ Cardinality(RecordsOf(key)) = 1
      /\ \A c \in RecordsOf(key) : c.state = l[1].state /\ c.GSI1SK = l[1].at

C19_Witness ==
  \E key \in SaverKeys :
    LET l == saverCalls.last[key] IN
    /\ l # Undefined /\ l[1].repeated /\ l[1].after < l[1].at
    /\ l[1].metadata # AskMetadata
    /\ getTuple(ckpts, key[1], key[2], key[3]) = Some(<<l[1].state, l[1].metadata>>)

\* C20: getTuple of a key returns the state and metadata of the latest
\* successful putTuple on exactly that key, undefined when there was none, and
\* the record of a key is the one that putTuple wrote: a putTuple on another
\* user, chat or checkpointId leaves it as it was.
C20_GetReturnsLatestPut ==
  \A key \in SaverKeys :
    LET l == saverCalls.last[key] IN
    IF l = Undefined
    THEN RecordsOf(key) = {} /\ getTuple(ckpts, key[1], key[2], key[3]) = Undefined
    ELSE /\ getTuple(ckpts, key[1], key[2], key[3]) = Some(<<l[1].state, l[1].metadata>>)
         /\ RecordsOf(key) =
              { [pk |-> CheckpointPK(key[1], key[2]), sk |-> CheckpointSK(key[3]),
                 GSI1PK |-> <<"USER#", key[1]>>, GSI1SK |-> l[1].at,
                 state |-> l[1].state, metadata |-> l[1].metadata] }

C20_Witness ==
  \E key \in SaverKeys :
    LET l == saverCalls.last[key] IN
    /\ l # Undefined /\ ~l[1].repeated /\ l[1].after < l[1].at
    /\ saverCalls.puts = 2
    /\ getTuple(ckpts, key[1], key[2], key[3]) = Some(<<l[1].state, l[1].metadata>>)
    /\ Cardinality(ckpts) = 1

\* the startKey of the latest list call is a text JSON.parse throws on
StartKeyUnparsable ==
  /\ saverCalls.op = "list"
  /\ saverCalls.args.startKey # NoStartKey
  /\ ~JSONparses(saverCalls.args.startKey)

\* the table call of the latest operation failed: the operation rejected with
\* the table's error and the table is as it was
FailurePropagated ==
  saverCalls.storeError # "none" =>
    saverCalls.outcome = saverCalls.storeError /\ ~saverCalls.changed

\* C21 (as stated): each operation of the checkpoint saver (getTuple, putTuple,
\* list) issues exactly one call to the table; when that call fails the
\* operation rejects with the same error, with no retry and no change of the
\* table.
C21_ExactlyOneCall ==
  saverCalls.op # "none" => saverCalls.storeCalls = 1 /\ FailurePropagated

\* C21 (amended): each operation issues at most one call to the table:
\* getTuple and putTuple exactly one, list exactly one unless its startKey is
\* a text that is not JSON, and then list rejects with the parse error before
\* any call. When the call fails the operation rejects with the same error,
\* and the table is as it was; when it succeeds the operation resolves.
C21_AtMostOneCall ==
  saverCalls.op # "none" =>
    /\ saverCalls.storeCalls = IF StartKeyUnparsable THEN 0 ELSE 1
    /\ StartKeyUnparsable => saverCalls.outcome = "SyntaxError" /\ ~saverCalls.changed
    /\ FailurePropagated
    /\ (saverCalls.storeCalls = 1 /\ saverCalls.storeError = "none")
         => saverCalls.outcome = "resolved"

\* a list call on a table that holds checkpoints was rejected by the table
C21_Witness ==
  /\ saverCalls.op = "list"
  /\ saverCalls.storeError = "StoreUnavailable"
  /\ saverCalls.outcome = "StoreUnavailable"
  /\ saverCalls.puts > 0 /\ ckpts # {}

\* most recent first, by the ordering timestamp
MostRecentFirst(items) ==
  \A i, j \in 1..Len(items) : i < j => items[i].GSI1SK >= items[j].GSI1SK

\* C22: a list call on an available table returns a page: most recent first
\* by ordering timestamp, at most limit items (50 when limit is not given),
\* with lastKey present exactly when the table reported a LastEvaluatedKey;
\* and a walk that fed each lastKey back as startKey until none came, on a
\* table left alone meanwhile, has seen what matched when it began: every
\* item once, in order.
C22_ListPagesInOrder ==
  saverCalls.op = "list" =>
    /\ saverCalls.outcome = "resolved"
    /\ saverCalls.page # Undefined
    /\ LET page == saverCalls.page[1]
           w == saverCalls.walk
       IN /\ Len(page.checkpoints) <=
               (IF saverCalls.args.limit # 0 THEN saverCalls.args.limit ELSE 50)
          /\ MostRecentFirst(page.checkpoints)
          /\ (page.lastKey # Undefined) <=> (page.reported # Undefined)
          /\ (w.open /\ w.lastKey = Undefined /\ w.quiet) => w.seen = w.began

DeleteStepsAfter(step) ==
  CASE step = "query" -> {"messages", "conversation", "checkpoint"}
    [] step = "messages" -> {"conversation", "checkpoint"}
    [] step = "conversation" -> {"checkpoint"}
    [] OTHER -> {}

\* C24: when a conversation DELETE has completed successfully, with nothing
\* else in flight (no turn is asked after a request, in SpecDelete), no
\* message of the conversation is in the table, the conversation record is
\* gone, and getTuple(user, conversation, 'latest') returns undefined; when a
\* step of it failed, the handler reported failure and took none of the steps
\* after it.
C24_DeleteRemovesConversation ==
  \A p \in DeleteSlots :
    LET d == del[p] IN
    /\ (d.pc = "done" /\ Still) =>
         /\ QueryConversation(msgs, d.userId, d.id) = {}
         /\ ConversationItem(d.userId, d.id) \notin convs
         /\ getTuple(ckpts, d.userId, d.id, "latest") = Undefined
    /\ d.pc = "failed" =>
         /\ d.error = "Failed to delete conversation"
         /\ d.performed \cap DeleteStepsAfter(d.failedAt) = {}

\* the refs, by position, that have a stored message in the conversation
ResolvingAt(userId, conversationId, refs) ==
  { i \in 1..Len(refs) :
      \E m \in QueryConversation(msgs, userId, conversationId) :
        m.pk = MessagePK(refs[i].messageId) }

\* the k-th smallest member of a set of positions
KthOf(S, k) == CHOOSE i \in S : Cardinality({ j \in S : j < i }) = k - 1

\* messages are those of exactly the refs that resolve, in ref order, each
\* with the role of its ref's isFromUser flag
MessagesOfResolving(messages, userId, conversationId, refs) ==
  LET at == ResolvingAt(userId, conversationId, refs) IN
  /\ Len(messages) = Cardinality(at)
  /\ \A k \in 1..Len(messages) :
       LET ref == refs[KthOf(at, k)]
           m == CHOOSE m \in msgs : m.pk = MessagePK(ref.messageId)
       IN messages[k] = [role |-> IF ref.isFromUser THEN "human" ELSE "ai",
                         content |-> m.content]

\* C25: loadMessagesFromRefs, as the invokeLLM node of a turn or of a stream
\* calls it, issues at most one query on the conversation index, none when
\* refs is empty, and returns the messages of exactly the refs that have a
\* stored message, in ref order, each with the role its ref's isFromUser flag
\* gives; refs without a stored message are dropped and the run goes on.
C25_LoadsResolvingRefs ==
  /\ \A p \in AskSlots :
       LET a == ask[p] IN
       a.pc = "invoke" =>
         /\ a.queries <= 1
         /\ a.state.messageRefs = <<>> => a.queries = 0
         /\ MessagesOfResolving(a.input, a.userId, a.conversationId,
                                a.state.messageRefs)
  /\ \A p \in StreamSlots :
       LET s == strm[p] IN
       (s.pc = "streaming" /\ s.chunks = <<>>) =>
         /\ s.queries <= 1
         /\ s.state.messageRefs = <<>> => s.queries = 0
         /\ MessagesOfResolving(s.input, s.userId, s.conversationId,
                                s.state.messageRefs)

\* x is a prefix of y
IsPrefix(x, y) == Len(x) <= Len(y) /\ SubSeq(y, 1, Len(x)) = x

\* C26: under sequential use, when an ask has resolved the 'latest' checkpoint
\* of its scope holds the refs the call read from it at its start, followed by
\* exactly two new refs: the user ref (isFromUser true), then the assistant ref
\* (isFromUser false); and whatever a call does, the refs the checkpoint held
\* when the call was made are a prefix of the refs it holds now, so the refs
\* never get shorter from one checkpoint write to the next.
C26_AppendsTwoRefs ==
  \A p \in AskSlots :
    LET a == ask[p]
        read == CheckpointRefs(a.checkpoint)
    IN
    /\ a.pc = "done" =>
         /\ LatestRefs(ScopeOf(a)) =
              read \o <<Ref(a.userMessageId, TRUE), Ref(a.assistantMessageId, FALSE)>>
         /\ {a.userMessageId, a.assistantMessageId} \cap RefIds(read) = {}
         /\ a.userMessageId # a.assistantMessageId
    /\ a.pc # "idle" =>
         IsPrefix(CheckpointRefs(a.preTurn), LatestRefs(ScopeOf(a)))

\* a second turn on a scope has resolved after a turn on it that was rejected
\* although its checkpoint was written
C26_Witness ==
  \E p \in AskSlots :
    LET a == ask[p] IN
    /\ a.pc = "done"
    /\ Len(CheckpointRefs(a.checkpoint)) = 2
    /\ Len(LatestRefs(ScopeOf(a))) = 4
    /\ rejected[ScopeOf(a)]

\* the ref lists the reducer meets: the channel's default, the channel values
\* of the calls, the refs of the stored checkpoints (the graph input is made
\* of them) and the update the invokeLLM node returns
RefListsMet ==
  {<<>>} \cup { ask[p].state.messageRefs : p \in AskSlots }
         \cup { c.state.messageRefs : c \in ckpts }
         \cup { InvokeUpdate(ask[p]).messageRefs : p \in AskSlots }

\* the refs of y whose messageId does not occur in x, in y's order
NewTo(x, y) ==
  LET isNew(ref) == \A i \in 1..Len(x) : x[i].messageId # ref.messageId
  IN SelectSeq(y, isNew)

\* what holds of merge(x, y) whatever x and y are
MergeAppendsNew(x, y) ==
  /\ messageRefsReducer(x, y) = x \o NewTo(x, y)
  /\ IsPrefix(x, messageRefsReducer(x, y))
  /\ messageRefsReducer(x, x) = x

RECURSIVE ChunkText(_)
ChunkText(chunks) ==
  IF chunks = <<>> THEN ""
  ELSE ChunkText(SubSeq(chunks, 1, Len(chunks) - 1))
       \o getMessageContent(chunks[Len(chunks)])

\* the invokeLLM node of the stream has returned
StreamNodeReturned(s) == s.pc \in {"step", "ended", "sentinel", "done"}

\* C28: when the streaming branch of invokeLLM has returned, the text it
\* accumulated is that of all the model's chunks in order; if that text is not
\* empty the channel holds the refs it started with plus exactly one new ref,
\* isFromUser false, with an id no ref and no stored message has; if it is
\* empty the refs are as they were; either way responseChunk is undefined, in
\* the node's update and in the channel, and the table holds no message of
\* the new ref.
C28_StreamingBranch ==
  \A p \in StreamSlots :
    LET s == strm[p]
        before == CheckpointRefs(s.checkpoint)
        refs == s.state.messageRefs
    IN
    StreamNodeReturned(s) =>
      /\ s.accumulatedContent = ChunkText(s.chunks)
      /\ s.step[1].responseChunk = Undefined
      /\ s.state.responseChunk = Undefined
      /\ IF ChunkText(s.chunks) # ""
         THEN /\ Len(refs) = Len(before) + 1
              /\ SubSeq(refs, 1, Len(before)) = before
              /\ ~refs[Len(refs)].isFromUser
              /\ refs[Len(refs)].messageId \notin RefIds(before)
              /\ GetMessage(msgs, refs[Len(refs)].messageId) = Undefined
         ELSE refs = before

\* a stream on a conversation with one turn has returned after two chunks of
\* text
C28_Witness ==
  \E p \in StreamSlots :
    LET s == strm[p] IN
    /\ s.pc = "done"
    /\ Len(s.chunks) = 2
    /\ s.chunks[1] # s.chunks[2]
    /\ s.accumulatedContent = "Streaming response"
    /\ Len(CheckpointRefs(s.checkpoint)) = 2
    /\ Len(s.state.messageRefs) = 3

\* the channels as the graph input leaves them, before any node has run
GraphInput(initialState) ==
  ApplyUpdate(DefaultState, {"messageRefs", "isStreaming"},
     [messageRefs |-> initialState.messageRefs, responseChunk |-> Undefined,
      isStreaming |-> initialState.isStreaming])

\* the state processMessages leaves behind differs from its input in
\* responseChunk at most, and responseChunk is undefined in it
PreparedFrom(after, before) ==
  /\ after.messageRefs = before.messageRefs
  /\ after.isStreaming = before.isStreaming
  /\ after.responseChunk = Undefined

GraphPath == <<"processMessages", "invokeLLM">>

\* C29: every graph execution enters processMessages once, then invokeLLM
\* once, and then ends; when processMessages has run and invokeLLM has not
\* begun, no table or model call of the execution has been made and the state
\* is the graph input with responseChunk undefined (messageRefs and
\* isStreaming as given).
C29_PrepareThenInvokeOnce ==
  /\ compiledGraph => NodeAfter("invokeLLM") = "END"
  /\ \A p \in AskSlots :
       LET a == ask[p] IN
       /\ IsPrefix(a.ran, GraphPath)
       /\ a.pc = "graph" =>
            /\ a.ran = <<"processMessages">>
            /\ PreparedFrom(a.state, GraphInput(AskInitialState(a)))
            /\ a.queries = 0 /\ a.reply = Undefined /\ ~AskPending(a)
       /\ a.pc \in {"invoke", "persist", "finish", "done"} => a.ran = GraphPath
  /\ \A p \in StreamSlots :
       LET s == strm[p] IN
       /\ s.ran \in {<<>>, GraphPath}
       /\ s.pc \in {"idle", "created", "getTuple"} => s.ran = <<>>
       /\ s.pc \in {"streaming", "step", "ended", "sentinel", "done"} =>
            s.ran = GraphPath
       /\ (s.pc = "streaming" /\ s.step = Undefined) =>
            PreparedFrom(s.state, GraphInput(StreamInitialState(s)))

C29_Witness ==
  /\ \E p \in AskSlots :
       /\ ask[p].pc = "done" /\ ask[p].ran = GraphPath
       /\ Len(ask[p].state.messageRefs) = 2
  /\ \E p \in StreamSlots : strm[p].pc = "done" /\ strm[p].ran = GraphPath

\* an ask or askStream body has begun to run on the instance
Executed == counts.ask > 0 \/ pulled

\* C30: the graph is not compiled at construction and is compiled when the
\* first ask or askStream body runs; from then on, whatever calls follow, the
\* three edges have been wired once (compile runs in the same branch as the
\* wiring) and the compiled graph stays the one in use.
C30_CompiledOnceLazily ==
  /\ compiledGraph <=> Executed
  /\ edges = IF compiledGraph THEN GraphEdges ELSE <<>>

C30_Witness ==
  /\ counts.ask > 0 /\ pulled
  /\ \E p \in AskSlots : ask[p].pc = "done"
  /\ \E p \in StreamSlots : strm[p].pc = "done"
  /\ compiledGraph /\ Len(edges) = 3

\* C31: while no ask or askStream body has run, every addFeatureNode call
\* succeeds: it registers the named node, wires no edge and leaves the graph
\* uncompiled.
C31_AddBeforeExecution ==
  [][\A n \in NodeNames :
       (AddFeatureNode(n) /\ ~Executed) =>
         /\ addOutcome' = "added"
         /\ nodes' = nodes \cup {n}
         /\ edges' = edges /\ edges' = <<>>
         /\ ~compiledGraph']_vars

C31_Witness ==
  /\ counts.add = 2 /\ addOutcome = "added"
  /\ nodes = {"processMessages", "invokeLLM"} \cup NodeNames
  /\ edges = <<>> /\ ~compiledGraph /\ ~Executed

\* the checkpoint records stored for a scope, under any checkpoint id
CheckpointsOf(scope) == { c \in ckpts : c.pk = CheckpointPK(scope[1], scope[2]) }

\* C32: whatever ask and askStream calls have been made, every checkpoint
\* record is stored under the id 'latest', a scope has at most one record, and
\* that record is what getTuple(userId, conversationId, 'latest') returns.
C32_OnlyLatestCheckpoint ==
  /\ \A c \in ckpts : \E s \in Scopes : c \in CheckpointsOf(s)
  /\ \A s \in Scopes :
       /\ Cardinality(CheckpointsOf(s)) <= 1
       /\ \A c \in CheckpointsOf(s) :
            /\ c.sk = CheckpointSK("latest")
            /\ getTuple(ckpts, s[1], s[2], "latest") = Some(<<c.state, c.metadata>>)

C32_Witness ==
  /\ counts.ask = 2
  /\ \A p \in AskSlots : AskSettled(ask[p]) /\ ~AskPending(ask[p])
  /\ \E s \in Scopes : Cardinality(CheckpointsOf(s)) = 1 /\ Len(LatestRefs(s)) = 4

\* the step is one of a conversation DELETE request
ConversationDeleteStep == del' # del

\* the step is a successful edit (PUT) addressed at the message with this id
EditStepOn(id) ==
  \E u \in Users, text \in EditTexts : MessagePUT(u, id, text, TRUE)

C34_StreamChangesNoStore ==
  [][(strm' # strm) =>
       /\ msgs' = msgs /\ ckpts' = ckpts /\ convs' = convs
       /\ \A p \in StreamSlots :
            (strm[p].pc = "getTuple" /\ strm'[p].pc = "streaming") =>
              strm'[p].checkpoint =
                getTuple(ckpts, strm[p].userId, strm[p].conversationId, "latest")]_vars

\* a stream that loaded the checkpoint of an earlier turn was consumed to its
\* end after the model produced text, and the stores hold that turn's two
\* messages and refs
C34_Witness ==
  \E p \in StreamSlots :
    /\ strm[p].pc = "done" /\ Truthy(strm[p].accumulatedContent)
    /\ Len(strm[p].state.messageRefs) = 3
    /\ Cardinality(msgs) = 2
    /\ Len(LatestRefs(<<strm[p].userId, strm[p].conversationId>>)) = 2

\* the model messages the refs of a scope's 'latest' checkpoint resolve to
HistoryOf(s) ==
  loadMessagesFromRefs(msgs, LatestRefs(s),
                       [userId |-> s[1], conversationId |-> s[2]])

\* C35: when ask calls on different scopes overlap, each scope fares as if its
\* calls had run alone: the model is sent the scope's own earlier turns
\* followed by the new utterance, and once the scope's calls have settled
\* without a rejection its checkpoint resolves to the scope's own turns.
C35_ScopesDoNotInterfere ==
  /\ \A p \in AskSlots :
       LET a == ask[p]
           s == ScopeOf(a)
       IN (a.pc \in {"invoke", "persist", "finish", "done"} /\ ~rejected[s]) =>
            LET own == IF a.pc = "done"
                       THEN SubSeq(transcript[s], 1, Len(transcript[s]) - 2)
                       ELSE transcript[s]
            IN a.input = own \o <<HumanMessage(a.content)>>
  /\ \A s \in Scopes :
       (~rejected[s] /\ ~InFlightOn(s)) => HistoryOf(s) = transcript[s]

\* two turns on different conversations that overlapped (their message
\* identifiers interleave) and both resolved
C35_Witness ==
  /\ ask["a1"].pc = "done" /\ ask["a2"].pc = "done"
  /\ ScopeOf(ask["a1"]) # ScopeOf(ask["a2"])
  /\ ask["a1"].userMessageId < ask["a2"].userMessageId
  /\ ask["a2"].userMessageId < ask["a1"].assistantMessageId
  /\ ask["a1"].content # ask["a2"].content
  /\ \A s \in Scopes : Len(HistoryOf(s)) = 2

\* the refs begin with a user ref and alternate between user and assistant
Alternating(refs) ==
  \A i \in 1..Len(refs) : refs[i].isFromUser = (i % 2 = 1)

\* C36: in every checkpoint written by sequential ask calls on a conversation
\* that started without one, the refs alternate user, assistant, user,
\* assistant, ..., beginning with a user ref and ending with an assistant ref.
C36_RefsAlternate ==
  \A c \in ckpts :
    /\ Alternating(c.state.messageRefs)
    /\ Len(c.state.messageRefs) > 0
    /\ ~c.state.messageRefs[Len(c.state.messageRefs)].isFromUser

C36_Witness ==
  \E c \in ckpts :
    /\ Len(c.state.messageRefs) = 4
    /\ [i \in 1..4 |-> c.state.messageRefs[i].isFromUser] = <<TRUE, FALSE, TRUE, FALSE>>

\* C37: whatever asks overlap on a conversation, a resolved ask returns the
\* content of the assistant message it created itself: the message it
\* re-fetched is the one of the last ref of its own final state, stored under
\* the id the call generated.
C37_ReturnsOwnReply ==
  \A p \in AskSlots :
    LET a == ask[p] IN
    a.pc = "done" =>
      /\ LastRef(a.state.messageRefs) = Ref(a.assistantMessageId, FALSE)
      /\ a.lastMessage # Undefined
      /\ a.lastMessage[1].pk = MessagePK(a.assistantMessageId)
      /\ a.result[1].content = a.lastMessage[1].content
      /\ a.result[1].content = a.responseContent

\* two asks on one conversation overlapped (their identifiers interleave), the
\* one that answered first resolved last, and each resolved with its own message
C37_Witness ==
  /\ ask["a1"].pc = "done" /\ ask["a2"].pc = "done"
  /\ ScopeOf(ask["a1"]) = ScopeOf(ask["a2"])
  /\ ask["a1"].userMessageId < ask["a2"].userMessageId
  /\ ask["a1"].assistantMessageId < ask["a2"].assistantMessageId
  /\ ask["a1"].lastMessage[1].pk = MessagePK(ask["a1"].assistantMessageId)
  /\ ask["a2"].lastMessage[1].pk = MessagePK(ask["a2"].assistantMessageId)
  /\ transcript[ScopeOf(ask["a1"])][1] = HumanMessage(ask["a2"].content)
  /\ ask["a1"].content # ask["a2"].content

\* ------------------------------- POST /api/conversations/[id]/messages
\* the handler calls llm.ask (AskStart and the steps of ask) and then reads the
\* 'latest' checkpoint and the messages of its last two refs

\* messageRefs.slice(-2)
LastTwo(refs) == IF Len(refs) <= 2 THEN refs ELSE SubSeq(refs, Len(refs) - 1, Len(refs))

\* the items found for the refs, in order, those not found left out
RECURSIVE FoundMessages(_, _)
FoundMessages(items, refs) ==
  IF refs = <<>> THEN <<>>
  ELSE LET got == GetMessage(items, Head(refs).messageId)
       IN (IF got = Undefined THEN <<>> ELSE <<got[1]>>)
          \o FoundMessages(items, Tail(refs))

\* lines 227-232: the refs the handler goes by, read from the table
PostRefsRead(a) == CheckpointRefs(LatestOf(a))

\* lines 202-232: ask has resolved; an empty answer ends the request with an
\* error, otherwise the checkpoint is read (the handler reads it twice in
\* parallel and uses the second result only)
PostGetCheckpoint(p) ==
  LET a == ask[p] IN
  /\ a.pc = "done" /\ a.post.pc = "none"
  /\ ask' = [ask EXCEPT ![p].post =
       IF Trim(a.result[1].content) = ""
       THEN [a.post EXCEPT !.pc = "failed"]
       ELSE [a.post EXCEPT !.pc = "refs", !.refs = PostRefsRead(a)]]
  /\ UNCHANGED << msgs, ckpts, convs, nextId, compiledGraph, nodes, edges,
                  strm, del, addOutcome, counts, transcript, rejected, pulled,
                  deleted, now, saverCalls, routeItems >>

\* lines 233-273: the messages of the last two refs are read and returned as
\* data.message and data.response
PostRespond(p) ==
  LET a == ask[p]
      found == FoundMessages(msgs, LastTwo(a.post.refs))
  IN
  /\ a.post.pc = "refs"
  /\ ask' = [ask EXCEPT ![p].post =
       [a.post EXCEPT !.pc = "responded",
          !.message = IF Len(found) >= 1 THEN Some(found[1]) ELSE Undefined,
          !.response = IF Len(found) >= 2 THEN Some(found[2]) ELSE Undefined]]
  /\ UNCHANGED << msgs, ckpts, convs, nextId, compiledGraph, nodes, edges,
                  strm, del, addOutcome, counts, transcript, rejected, pulled,
                  deleted, now, saverCalls, routeItems >>

\* POST requests on one conversation overlap freely, one per slot; no table
\* operation fails
NextPost ==
  \/ \E p \in AskSlots :
       /\ ask[p].pc = "idle" \/ ask[p].post.pc \in {"failed", "responded"}
          \/ ask[p].pc = "rejected"
       /\ counts.ask < MaxOverlap
       /\ AskCall({p}, {"c1"}, UserTexts)
  \/ AskSteps({TRUE})
  \/ \E p \in AskSlots : PostGetCheckpoint(p)
  \/ \E p \in AskSlots : PostRespond(p)
SpecPost == Init /\ [][NextPost]_vars

\* C38: a POST that has answered returns as data.message the user message and
\* as data.response the assistant message its own ask created, however the
\* POST requests on the conversation interleave (no table operation fails, so
\* the turn's checkpoint write succeeded).
C38_PostReturnsOwnMessages ==
  \A p \in AskSlots :
    LET a == ask[p] IN
    a.post.pc = "responded" =>
      /\ a.post.message = GetMessage(msgs, a.userMessageId)
      /\ a.post.response = GetMessage(msgs, a.assistantMessageId)
      /\ a.post.message # Undefined /\ a.post.response # Undefined

\* C39: when a conversation DELETE has completed and the asks that were in
\* flight during it have finished (no ask starts after it, in SpecDeleteRace),
\* the conversation has no 'latest' checkpoint with a ref to a message that is
\* not in the table.
C39_NoCheckpointAfterDelete ==
  \A p \in DeleteSlots :
    LET d == del[p]
        s == <<d.userId, d.id>>
    IN (d.pc = "done" /\ ~InFlightOn(s)) =>
         RefsWritten(d.userId, d.id, LatestRefs(s))

====
